---------------------------- MODULE Spec2Model ----------------------------
(***************************************************************************)
(* Model of ListController (src/src/controllers/list_controller.py): the   *)
(* validation and CRUD orchestration over the store, and the timer-driven  *)
(* sequential execution of a list.                                          *)
(*                                                                         *)
(* Strings are modelled as records [ch, n]: the text ch repeated n times,  *)
(* where ch is one character or one of the words the controller looks for. *)
(* n = -1 stands for Python's None where a string is optional.             *)
(* Everything the controller makes observable (signals and clipboard      *)
(* calls) is appended to one sequence, log, in the order it happens.       *)
(***************************************************************************)
EXTENDS Integers, Sequences, FiniteSets, TLC

VARIABLES
    listas,                 \* store: rows of table listas
    items,                  \* store: rows of table items that belong to a list
    next_lista_id,          \* store: next id of table listas
    next_item_id,           \* store: next id of table items
    _execution_timer,       \* 0 is None, otherwise the id of a QTimer object
    _execution_items,
    _execution_index,
    _execution_list_name,
    _execution_list_id,
    active_timers,          \* the QTimer objects for which isActive() holds
    next_timer,             \* id of the next QTimer object to be constructed
    log,                    \* signals emitted and clipboard calls made, in order
    ret,                    \* the last public call: operation, arguments, result,
                            \* and for the operations on lists the call that failed
    sess,                   \* history: the last started session and its ticks
    calls,                  \* history: number of public calls made
    faults                  \* history: number of collaborator calls that failed

store_vars == <<listas, items, next_lista_id, next_item_id>>
ctl_vars == <<_execution_timer, _execution_items, _execution_index,
              _execution_list_name, _execution_list_id, active_timers, next_timer>>
vars == <<listas, items, next_lista_id, next_item_id,
          _execution_timer, _execution_items, _execution_index,
          _execution_list_name, _execution_list_id, active_timers, next_timer,
          log, ret, sess, calls, faults>>

---------------------------------------------------------------------------
(* Bounds of the model *)

MaxCalls == 3        \* public calls in one behaviour of Spec
MaxFaults == 1       \* store or clipboard calls that fail in one behaviour
MaxCrudCalls == 1    \* calls of the operations on lists in one behaviour

---------------------------------------------------------------------------
(* Strings *)

Str(c, n) == [ch |-> c, n |-> n]
EmptyStr == Str("", 0)
NoneStr == Str("", -1)
\* Python truthiness of an optional string: None and "" are falsy
Truthy(s) == s.n > 0
\* str.strip(): a string of blanks becomes empty
strip(s) == IF s.ch = " " THEN EmptyStr ELSE s
\* len(): the words count with their own length
len(s) ==
    IF s.ch = "al menos un" THEN 11 * s.n
    ELSE IF s.ch = "lista" THEN 5 * s.n
    ELSE s.n

\* Optional values other than strings
None == [some |-> FALSE]
Some(v) == [some |-> TRUE, v |-> v]

\* A message: the fragments of its text, and the list name and the number
\* that its f-string interpolates, if any
Msg(text) == [text |-> text, name |-> NoneStr, i |-> 0]
MsgName(text, name) == [text |-> text, name |-> name, i |-> 0]
MsgNum(text, i) == [text |-> text, name |-> NoneStr, i |-> i]

\* "w in msg" for a fragment w: it is one of the fragments of the text, or
\* the interpolated name is made of it
Contains(msg, w) ==
    \/ \E i \in DOMAIN msg.text : msg.text[i] = w
    \/ (Truthy(msg.name) /\ msg.name.ch = w)

---------------------------------------------------------------------------
(* The store (database.db_manager.DBManager), after section 6 of the spec *)

Store == [listas |-> listas, items |-> items,
          next_lista_id |-> next_lista_id, next_item_id |-> next_item_id]

\* get_lista(id) -> record | None
db_get_lista(st, id) ==
    IF \E l \in st.listas : l.id = id
    THEN Some(CHOOSE l \in st.listas : l.id = id)
    ELSE None

RECURSIVE SortByOrden(_)
SortByOrden(rows) ==
    IF rows = {} THEN <<>>
    ELSE LET first == CHOOSE r \in rows : \A q \in rows :
                          \/ r.orden_lista < q.orden_lista
                          \/ (r.orden_lista = q.orden_lista /\ r.id <= q.id)
         IN <<first>> \o SortByOrden(rows \ {first})

\* get_items_by_lista(list_id) -> [record], ordered by orden_lista
db_get_items_by_lista(st, list_id) ==
    SortByOrden({r \in st.items : r.list_id = list_id})

\* is_lista_name_unique(category_id, name, exclude_id) -> bool
db_is_lista_name_unique(st, category_id, name, exclude_id) ==
    ~ \E l \in st.listas : /\ l.category_id = category_id
                           /\ l.name = name
                           /\ l.id # exclude_id

\* create_lista(category_id, name, description) -> id
db_create_lista(st, category_id, name, description) ==
    [st EXCEPT !.listas = @ \cup {[id |-> st.next_lista_id,
                                   category_id |-> category_id,
                                   name |-> name,
                                   description |-> description]},
               !.next_lista_id = @ + 1]

\* get_item(id) -> record | None
db_get_item(st, id) ==
    IF \E r \in st.items : r.id = id
    THEN Some(CHOOSE r \in st.items : r.id = id)
    ELSE None

\* item_data.get('tags', [])
TagsOf(item_data) ==
    IF "tags" \in DOMAIN item_data THEN item_data.tags ELSE <<>>

\* add_item(category_id, label, content, ..., tags, list_id, orden_lista) -> id
db_add_item(st, category_id, item_data, list_id, orden_lista) ==
    [st EXCEPT !.items = @ \cup {[id |-> st.next_item_id,
                                  category_id |-> category_id,
                                  label |-> item_data.label,
                                  content |-> item_data.content,
                                  tags |-> TagsOf(item_data),
                                  list_id |-> list_id,
                                  orden_lista |-> orden_lista]},
               !.next_item_id = @ + 1]

\* update_lista(id, **fields): a partial update of name and description
db_update_lista(st, id, name, description) ==
    [st EXCEPT !.listas =
        {IF l.id = id
         THEN [l EXCEPT !.name = IF name.some THEN name.v ELSE @,
                        !.description = IF description.some THEN description.v ELSE @]
         ELSE l : l \in @}]

\* delete_item(id)
db_delete_item(st, id) == [st EXCEPT !.items = {r \in @ : r.id # id}]

\* delete_lista(id) -> bool, the items of the list go with it
db_delete_lista(st, id) ==
    [st EXCEPT !.listas = {l \in @ : l.id # id},
               !.items = {r \in @ : r.list_id # id}]


\* Stores to build a controller over
EmptyStore == [listas |-> {}, items |-> {}, next_lista_id |-> 1, next_item_id |-> 1]

ItemData(k) == [label |-> Str("s", k), content |-> Str("c", k)]

RECURSIVE AddItems(_, _, _, _, _)
AddItems(st, category_id, lista_id, data, i) ==
    IF i > Len(data) THEN st
    ELSE AddItems(db_add_item(st, category_id, data[i], lista_id, i),
                  category_id, lista_id, data, i + 1)

StoredList(st, category_id, name, data) ==
    AddItems(db_create_lista(st, category_id, name, NoneStr),
             category_id, st.next_lista_id, data, 1)

---------------------------------------------------------------------------
(* Signals and clipboard calls, as entries of log *)

SigStarted(lista_id, total) == <<"execution_started", lista_id, total>>
SigStep(step_number, label) == <<"execution_step", step_number, label>>
SigCompleted(lista_id) == <<"execution_completed", lista_id>>
SigCancelled == <<"execution_cancelled">>
SigError(msg) == <<"error_occurred", msg>>
\* clipboard_manager.copy_text(text) and how it ended: "ok", "false" or "throw"
ClipCall(text, outcome) == <<"copy_text", text, outcome>>

ClipOutcomes == {"ok", "false", "throw"}

MsgNotFound(lista_id) == MsgNum(<<"Lista con ID", "no encontrada">>, lista_id)
MsgVacia == Msg(<<"La", "lista", "está", "vacía">>)
MsgExecError(e) == Msg(<<"Error al ejecutar lista:", e>>)

---------------------------------------------------------------------------
(* Sequential execution.  The operators work on the controller's fields,   *)
(* packed in a record c, so that one handler can call another.             *)

\* The controller reading the items of the executing list from the store
\* at each step
Ctl_ItemsFromStore ==
    [timer |-> _execution_timer,
     items |-> IF _execution_list_id # 0
               THEN db_get_items_by_lista(Store, _execution_list_id)
               ELSE _execution_items,
     index |-> _execution_index, list_name |-> _execution_list_name,
     list_id |-> _execution_list_id, active |-> active_timers, log |-> log]

Ctl == [timer |-> _execution_timer, items |-> _execution_items,
        index |-> _execution_index, list_name |-> _execution_list_name,
        list_id |-> _execution_list_id, active |-> active_timers, log |-> log]

is_executing(c) == c.timer # 0 /\ c.timer \in c.active

\* cancel_execution without timer.stop(): the timer is dropped while it runs
cancel_execution_NoStop(c) ==
    IF c.timer # 0 /\ c.timer \in c.active
    THEN [c EXCEPT !.timer = 0,
                   !.items = <<>>,
                   !.index = 0,
                   !.list_name = EmptyStr,
                   !.list_id = 0,
                   !.log = Append(@, SigCancelled)]
    ELSE c

\* cancel_execution that does not ask isActive()
cancel_execution_NoActiveCheck(c) ==
    IF c.timer # 0
    THEN [c EXCEPT !.active = @ \ {c.timer},
                   !.timer = 0,
                   !.items = <<>>,
                   !.index = 0,
                   !.list_name = EmptyStr,
                   !.list_id = 0,
                   !.log = Append(@, SigCancelled)]
    ELSE c

cancel_execution(c) ==
    IF c.timer # 0 /\ c.timer \in c.active
    THEN [c EXCEPT !.active = @ \ {c.timer},
                   !.timer = 0,
                   !.items = <<>>,
                   !.index = 0,
                   !.list_name = EmptyStr,
                   !.list_id = 0,
                   !.log = Append(@, SigCancelled)]
    ELSE c

_finish_execution(c) ==
    [c EXCEPT !.active = IF c.timer # 0 THEN @ \ {c.timer} ELSE @,
              !.timer = 0,
              !.items = <<>>,
              !.index = 0,
              !.list_name = EmptyStr,
              !.list_id = 0,
              !.log = Append(@, SigCompleted(c.list_id))]

\* _execute_next_step that announces the 0-based index as the step number
_execute_next_step_ZeroBased(c, clip) ==
    IF c.index >= Len(c.items)
    THEN _finish_execution(c)
    ELSE LET item == c.items[c.index + 1]
             step_number == c.index
         IN IF clip = "throw"
            THEN _finish_execution(
                     [c EXCEPT !.log = Append(@, ClipCall(item.content, clip))])
            ELSE [c EXCEPT !.log = @ \o <<ClipCall(item.content, clip),
                                          SigStep(step_number, item.label)>>,
                           !.index = @ + 1]

\* _execute_next_step that finalizes in the tick of the last item
_execute_next_step_FinishAtLast(c, clip) ==
    IF c.index >= Len(c.items)
    THEN _finish_execution(c)
    ELSE LET item == c.items[c.index + 1]
             step_number == c.index + 1
             done == [c EXCEPT !.log = @ \o <<ClipCall(item.content, clip),
                                              SigStep(step_number, item.label)>>,
                               !.index = @ + 1]
         IN IF clip = "throw"
            THEN _finish_execution(
                     [c EXCEPT !.log = Append(@, ClipCall(item.content, clip))])
            ELSE IF step_number = Len(c.items) /\ step_number > 1
                 THEN _finish_execution(done)
                 ELSE done

\* _execute_next_step that swallows the exception of a step and goes on
_execute_next_step_KeepGoing(c, clip) ==
    IF c.index >= Len(c.items)
    THEN _finish_execution(c)
    ELSE LET item == c.items[c.index + 1]
             step_number == c.index + 1
         IN IF clip = "throw"
            THEN [c EXCEPT !.log = Append(@, ClipCall(item.content, clip)),
                           !.index = @ + 1]
            ELSE [c EXCEPT !.log = @ \o <<ClipCall(item.content, clip),
                                          SigStep(step_number, item.label)>>,
                           !.index = @ + 1]

\* _execute_next_step ending the session when copy_text returns False
_execute_next_step_StopOnFalse(c, clip) ==
    IF c.index >= Len(c.items)
    THEN _finish_execution(c)
    ELSE LET item == c.items[c.index + 1]
             step_number == c.index + 1
         IN IF clip # "ok"
            THEN _finish_execution(
                     [c EXCEPT !.log = Append(@, ClipCall(item.content, clip))])
            ELSE [c EXCEPT !.log = @ \o <<ClipCall(item.content, clip),
                                          SigStep(step_number, item.label)>>,
                           !.index = @ + 1]

\* clip is how the clipboard call of this step ends
_execute_next_step(c, clip) ==
    IF c.index >= Len(c.items)
    THEN _finish_execution(c)
    ELSE LET item == c.items[c.index + 1]
             step_number == c.index + 1
         IN IF clip = "throw"
            THEN _finish_execution(
                     [c EXCEPT !.log = Append(@, ClipCall(item.content, clip))])
            ELSE [c EXCEPT !.log = @ \o <<ClipCall(item.content, clip),
                                          SigStep(step_number, item.label)>>,
                           !.index = @ + 1]

\* The result of execute_list_sequentially: the controller's fields and the
\* value returned.  fail names the store call that throws, if any.
ExecFails == {"none", "get_lista", "get_items_by_lista"}

\* get_list_items: a store exception is caught and [] returned
get_list_items(st, lista_id, throws) ==
    IF throws THEN <<>> ELSE db_get_items_by_lista(st, lista_id)

\* "if not items" at line 511
ItemsMissing_Never(its) == FALSE

ItemsMissing(its) == its = <<>>

\* The early return with the running session cancelled first
NothingToExecute_Cancelling(c, msg) ==
    [c |-> [cancel_execution(c) EXCEPT !.log = Append(@, SigError(msg))],
     val |-> FALSE]

\* The early returns of lines 504-506 and 511-513: an error and False
NothingToExecute(c, msg) ==
    [c |-> [c EXCEPT !.log = Append(@, SigError(msg))], val |-> FALSE]

execute_list_sequentially(c, st, timer_id, lista_id, fail, clip) ==
    IF fail = "get_lista"
    THEN [c |-> [c EXCEPT !.log = Append(@, SigError(MsgExecError("store")))],
          val |-> FALSE]
    ELSE
    LET lista == db_get_lista(st, lista_id) IN
    IF ~lista.some
    THEN NothingToExecute(c, MsgNotFound(lista_id))
    ELSE
    LET its == get_list_items(st, lista_id, fail = "get_items_by_lista") IN
    IF ItemsMissing(its)
    THEN NothingToExecute(c, MsgVacia)
    ELSE
    LET c1 == cancel_execution(c)
        c2 == [c1 EXCEPT !.items = its,
                         !.index = 0,
                         !.list_id = lista_id,
                         !.list_name = lista.v.name,
                         !.timer = timer_id,
                         !.log = Append(@, SigStarted(lista_id, Len(its)))]
        c3 == _execute_next_step(c2, clip)
    IN IF Len(its) > 1
       THEN IF c3.timer = 0
            \* None.start(delay_ms) raises AttributeError, caught at line 541
            THEN [c |-> [c3 EXCEPT !.log =
                            Append(@, SigError(MsgExecError("NoneType")))],
                  val |-> FALSE]
            ELSE [c |-> [c3 EXCEPT !.active = @ \cup {c3.timer}], val |-> TRUE]
       ELSE [c |-> c3, val |-> TRUE]

SetCtl(c) ==
    /\ _execution_timer' = c.timer
    /\ _execution_items' = c.items
    /\ _execution_index' = c.index
    /\ _execution_list_name' = c.list_name
    /\ _execution_list_id' = c.list_id
    /\ active_timers' = c.active
    /\ log' = c.log

---------------------------------------------------------------------------
(* Actions of the sequential execution *)

ListIds == 1..4

\* n more collaborator calls fail in this step
Faulty(n) == faults + n <= MaxFaults /\ faults' = faults + n

\* A call of execute_list_sequentially(lista_id); delay_ms only sets the
\* period of the timer, which the model does not measure.
ExecuteListSequentially ==
    /\ calls < MaxCalls
    /\ \E lista_id \in ListIds, fail \in ExecFails, clip \in ClipOutcomes :
         LET r == execute_list_sequentially(Ctl, Store, next_timer, lista_id, fail, clip)
             begun == Len(r.c.log) > Len(log) /\
                      \E i \in (Len(log) + 1)..Len(r.c.log) :
                          r.c.log[i][1] = "execution_started"
         IN /\ SetCtl(r.c)
            /\ next_timer' = IF begun THEN next_timer + 1 ELSE next_timer
            /\ ret' = [op |-> "execute_list_sequentially", args |-> <<lista_id>>,
                       val |-> r.val, raised |-> FALSE,
                       lo |-> Len(log), hi |-> Len(r.c.log)]
            /\ sess' = IF begun
                       THEN [n |-> sess.n + 1, list |-> lista_id,
                             items |-> db_get_items_by_lista(Store, lista_id),
                             ticks |-> 0, threw |-> (clip = "throw")]
                       ELSE sess
            \* a failure is chosen only for a call that is made
            /\ clip # "ok" => begun
            /\ fail = "get_items_by_lista" => db_get_lista(Store, lista_id).some
            /\ Faulty((IF fail # "none" THEN 1 ELSE 0) + (IF clip # "ok" THEN 1 ELSE 0))
    /\ calls' = calls + 1
    /\ UNCHANGED store_vars

\* A call of cancel_execution()
CancelExecution ==
    /\ calls < MaxCalls
    /\ SetCtl(cancel_execution(Ctl))
    /\ ret' = [op |-> "cancel_execution", args |-> <<>>, val |-> FALSE,
               raised |-> FALSE,
               lo |-> Len(log), hi |-> Len(cancel_execution(Ctl).log)]
    /\ calls' = calls + 1
    /\ UNCHANGED <<store_vars, next_timer, sess, faults>>

\* The timeout of an active QTimer: the slot connected at line 526 runs
TimerTick ==
    \E t \in active_timers, clip \in ClipOutcomes :
        /\ SetCtl(_execute_next_step(Ctl, clip))
        /\ sess' = [sess EXCEPT !.ticks = @ + 1,
                                !.threw = @ \/ (_execution_index < Len(_execution_items)
                                                /\ clip = "throw")]
        /\ clip # "ok" => _execution_index < Len(_execution_items)
        /\ Faulty(IF clip # "ok" THEN 1 ELSE 0)
        /\ UNCHANGED <<store_vars, next_timer, ret, calls>>

---------------------------------------------------------------------------
(* Specification of the sequential execution: the controller is built over *)
(* a store that already holds lists of 1, 3 and 0 items.                 *)

ExecStore ==
    StoredList(
      StoredList(
        StoredList(EmptyStore, 1, Str("a", 1), <<ItemData(1)>>),
        1, Str("b", 1), <<ItemData(3), ItemData(1), ItemData(2)>>),
      2, Str("a", 1), <<>>)

InitCtl ==
    /\ _execution_timer = 0
    /\ _execution_items = <<>>
    /\ _execution_index = 0
    /\ _execution_list_name = EmptyStr
    /\ _execution_list_id = 0
    /\ active_timers = {}
    /\ next_timer = 1
    /\ log = <<>>
    /\ ret = [op |-> "none", args |-> <<>>, val |-> FALSE, raised |-> FALSE,
              lo |-> 0, hi |-> 0]
    /\ sess = [n |-> 0, list |-> 0, items |-> <<>>, ticks |-> 0, threw |-> FALSE]
    /\ calls = 0
    /\ faults = 0

SetStore(st) ==
    /\ listas = st.listas
    /\ items = st.items
    /\ next_lista_id = st.next_lista_id
    /\ next_item_id = st.next_item_id

Init == InitCtl /\ SetStore(ExecStore)

Next == ExecuteListSequentially \/ CancelExecution \/ TimerTick

Spec == Init /\ [][Next]_vars

---------------------------------------------------------------------------
(* Validation and CRUD *)

SigCreated(lista_id, category_id) == <<"list_created", lista_id, category_id>>
SigCreatedLegacy(name, category_id) == <<"list_created_legacy", name, category_id>>
SigUpdated(lista_id, category_id) == <<"list_updated", lista_id, category_id>>
SigUpdatedLegacy(name, category_id) == <<"list_updated_legacy", name, category_id>>
SigRenamed(lista_id, old_name, new_name, category_id) ==
    <<"list_renamed", lista_id, old_name, new_name, category_id>>

SigDeleted(lista_id, category_id) == <<"list_deleted", lista_id, category_id>>
SigDeletedLegacy(name, category_id) == <<"list_deleted_legacy", name, category_id>>

MaxNameLen == 100
MaxItems == 50
MaxLabelLen == 200

MsgNameEmpty == Msg(<<"El nombre de la lista no puede estar vacío">>)
MsgNameTooLong ==
    Msg(<<"El nombre de la lista es demasiado largo (máximo 100 caracteres)">>)
MsgDuplicate(name) ==
    MsgName(<<"Ya existe una lista con el nombre", "en esta categoría">>, name)
MsgNoItems == Msg(<<"La lista debe tener", "al menos un", "paso/item">>)
MsgTooMany == Msg(<<"La lista no puede tener más de 50 pasos">>)
MsgLabelMissing(i) == MsgNum(<<"El paso #", "debe tener un nombre/label">>, i)
MsgLabelTooLong(i) == MsgNum(<<"El nombre del paso #", "es demasiado largo">>, i)
MsgCreateError(e) == Msg(<<"Error al crear lista:", e>>)
MsgUpdateError(e) == Msg(<<"Error al actualizar lista:", e>>)
MsgCreated(name, n) == [text |-> <<"Lista", "creada con", "pasos">>, name |-> name, i |-> n]
MsgUpdated(name) == MsgName(<<"Lista", "actualizada exitosamente">>, name)

MsgNoValidItems == Msg(<<"No se encontraron items válidos para crear la lista">>)
MsgFromItemsError(e) == Msg(<<"Error al crear lista desde items:", e>>)
MsgDeleted(name) == MsgName(<<"Lista", "eliminada">>, name)
MsgDeleteFailed == Msg(<<"Error al eliminar lista">>)
MsgDeleteError(e) == Msg(<<"Error al eliminar lista:", e>>)
MsgCopied(name, n) == [text |-> <<"Copiados", "pasos de">>, name |-> name, i |-> n]
MsgCopyFailed == Msg(<<"Error al copiar al clipboard">>)
MsgCopyError(e) == Msg(<<"Error al copiar lista:", e>>)

\* The store call that throws in an operation, if any
NoFail == <<"none", 0>>
Fail(call, k) == <<call, k>>
\* The store call that returns False instead of throwing
ReturnsFalse(call) == <<call, -1>>

\* The rules of lines 107-112 with ">= 200" for "> 200"
BadItems_AtLimit(items_data) ==
    {i \in DOMAIN items_data :
        ~Truthy(items_data[i].label) \/ len(items_data[i].label) >= MaxLabelLen}

\* The items that break a rule of lines 107-112
BadItems(items_data) ==
    {i \in DOMAIN items_data :
        ~Truthy(items_data[i].label) \/ len(items_data[i].label) > MaxLabelLen}

\* The last item that breaks a rule of lines 107-112, 0 if none does
FirstBadItem_Last(items_data) ==
    IF BadItems(items_data) = {} THEN 0
    ELSE CHOOSE i \in BadItems(items_data) : \A j \in BadItems(items_data) : j <= i

\* The first item that breaks a rule of lines 107-112, 0 if none does
FirstBadItem(items_data) ==
    IF BadItems(items_data) = {} THEN 0
    ELSE CHOOSE i \in BadItems(items_data) : \A j \in BadItems(items_data) : i <= j

\* Lines 95-96 with exclude_id left out of the store's uniqueness check
NameTaken_NoExclude(st, category_id, list_name, exclude_list_id) ==
    category_id # 0 /\ ~db_is_lista_name_unique(st, category_id, list_name, 0)

\* Lines 95-96: the name is checked only if a category is given, and the
\* list exclude_list_id does not count
NameTaken(st, category_id, list_name, exclude_list_id) ==
    category_id # 0
    /\ ~db_is_lista_name_unique(st, category_id, list_name, exclude_list_id)

\* Line 100 left out: a list without items is accepted
NoItems_Never(items_data) == FALSE

\* "if not items_data" at line 100
NoItems(items_data) == Len(items_data) = 0

\* validate_list_data -> (is_valid, error_message); raised when the store's
\* uniqueness check throws.  category_id is 0 when it is None.
validate_list_data(st, list_name, items_data, category_id, exclude_list_id, throws) ==
    IF ~Truthy(list_name) \/ ~Truthy(strip(list_name))
    THEN [ok |-> FALSE, msg |-> MsgNameEmpty, raised |-> FALSE]
    ELSE IF len(list_name) > MaxNameLen
    THEN [ok |-> FALSE, msg |-> MsgNameTooLong, raised |-> FALSE]
    ELSE IF category_id # 0 /\ throws
    THEN [ok |-> FALSE, msg |-> Msg(<<"store">>), raised |-> TRUE]
    ELSE IF NameTaken(st, category_id, list_name, exclude_list_id)
    THEN [ok |-> FALSE, msg |-> MsgDuplicate(list_name), raised |-> FALSE]
    ELSE IF NoItems(items_data)
    THEN [ok |-> FALSE, msg |-> MsgNoItems, raised |-> FALSE]
    ELSE IF Len(items_data) > MaxItems
    THEN [ok |-> FALSE, msg |-> MsgTooMany, raised |-> FALSE]
    ELSE LET i == FirstBadItem(items_data) IN
         IF i # 0 /\ ~Truthy(items_data[i].label)
         THEN [ok |-> FALSE, msg |-> MsgLabelMissing(i), raised |-> FALSE]
         ELSE IF i # 0
         THEN [ok |-> FALSE, msg |-> MsgLabelTooLong(i), raised |-> FALSE]
         ELSE [ok |-> TRUE, msg |-> Msg(<<>>), raised |-> FALSE]

\* The loop of lines 217-230 with enumerate(items_data) left at start=0
RECURSIVE AddListItems_ZeroBased(_, _, _, _, _, _)
AddListItems_ZeroBased(r, category_id, lista_id, items_data, i, fail) ==
    IF i > Len(items_data) THEN r
    ELSE IF fail = Fail("add_item", i) THEN [r EXCEPT !.raised = TRUE]
    ELSE AddListItems_ZeroBased(
            [st |-> db_add_item(r.st, category_id, items_data[i], lista_id, i - 1),
             ids |-> Append(r.ids, r.st.next_item_id),
             raised |-> FALSE],
            category_id, lista_id, items_data, i + 1, fail)

\* The loop of lines 217-230 undoing its additions when the store throws
RECURSIVE AddListItems_Rollback(_, _, _, _, _, _)
AddListItems_Rollback(r, category_id, lista_id, items_data, i, fail) ==
    IF i > Len(items_data) THEN r
    ELSE IF fail = Fail("add_item", i)
    THEN [r EXCEPT !.raised = TRUE,
                   !.st.items = {q \in @ : q.list_id # lista_id}]
    ELSE AddListItems_Rollback(
            [st |-> db_add_item(r.st, category_id, items_data[i], lista_id, i),
             ids |-> Append(r.ids, r.st.next_item_id),
             raised |-> FALSE],
            category_id, lista_id, items_data, i + 1, fail)

\* The loop of lines 217-230: add items i.. of items_data with orden_lista i,
\* until the store throws.  r is [st, ids, raised].
RECURSIVE AddListItems(_, _, _, _, _, _)
AddListItems(r, category_id, lista_id, items_data, i, fail) ==
    IF i > Len(items_data) THEN r
    ELSE IF fail = Fail("add_item", i) THEN [r EXCEPT !.raised = TRUE]
    ELSE AddListItems(
            [st |-> db_add_item(r.st, category_id, items_data[i], lista_id, i),
             ids |-> Append(r.ids, r.st.next_item_id),
             raised |-> FALSE],
            category_id, lista_id, items_data, i + 1, fail)

\* create_list -> [st, out, val, raised, threw]: the store afterwards, the
\* signals emitted, the tuple returned, whether an exception left the call,
\* and whether a store call threw
create_list(st, category_id, list_name, items_data, description, fail) ==
    LET v == validate_list_data(st, list_name, items_data, category_id, 0,
                                fail = Fail("is_lista_name_unique", 1))
    IN
    IF v.raised
    THEN [st |-> st, out |-> <<>>, val |-> <<>>, raised |-> TRUE, threw |-> TRUE]
    ELSE IF ~v.ok
    THEN [st |-> st, out |-> <<SigError(v.msg)>>,
          val |-> <<FALSE, v.msg, 0, <<>>>>, raised |-> FALSE, threw |-> FALSE]
    ELSE IF fail = Fail("create_lista", 0)
    THEN [st |-> st, out |-> <<SigError(MsgCreateError("store"))>>,
          val |-> <<FALSE, MsgCreateError("store"), 0, <<>>>>,
          raised |-> FALSE, threw |-> TRUE]
    ELSE
    LET lista_id == st.next_lista_id
        st1 == db_create_lista(st, category_id, list_name, description)
        r == AddListItems([st |-> st1, ids |-> <<>>, raised |-> FALSE],
                          category_id, lista_id, items_data, 1, fail)
    IN IF r.raised
       THEN [st |-> r.st, out |-> <<SigError(MsgCreateError("store"))>>,
             val |-> <<FALSE, MsgCreateError("store"), 0, <<>>>>,
             raised |-> FALSE, threw |-> TRUE]
       ELSE [st |-> r.st,
             out |-> <<SigCreated(lista_id, category_id),
                       SigCreatedLegacy(list_name, category_id)>>,
             val |-> <<TRUE, MsgCreated(list_name, Len(r.ids)), lista_id, r.ids>>,
             raised |-> FALSE, threw |-> FALSE]

\* The loop of lines 304-305 left out: the current items stay
DeleteListItems_None(r, current_items, i, fail) == r

\* The loop of lines 304-305: delete the current items until the store throws
RECURSIVE DeleteListItems(_, _, _, _)
DeleteListItems(r, current_items, i, fail) ==
    IF i > Len(current_items) THEN r
    ELSE IF fail = Fail("delete_item", i) THEN [r EXCEPT !.raised = TRUE]
    ELSE DeleteListItems([r EXCEPT !.st = db_delete_item(@, current_items[i].id)],
                         current_items, i + 1, fail)

\* Lines 290-320 of update_list: the writes, after both validations passed
update_list_writes(st, lista_id, category_id, new_name, description, items_data, fail) ==
    LET has_updates == Truthy(new_name) \/ description # NoneStr IN
    IF has_updates /\ fail = Fail("update_lista", 0)
    THEN [st |-> st, raised |-> TRUE]
    ELSE
    LET st1 == IF has_updates
               THEN db_update_lista(st, lista_id,
                        IF Truthy(new_name) THEN Some(new_name) ELSE None,
                        IF description # NoneStr THEN Some(description) ELSE None)
               ELSE st
    IN
    IF ~items_data.some THEN [st |-> st1, raised |-> FALSE]
    ELSE IF fail = Fail("get_items_by_lista", 0) THEN [st |-> st1, raised |-> TRUE]
    ELSE
    LET d == DeleteListItems([st |-> st1, raised |-> FALSE],
                             db_get_items_by_lista(st1, lista_id), 1, fail)
    IN IF d.raised THEN d
       ELSE LET a == AddListItems([st |-> d.st, ids |-> <<>>, raised |-> FALSE],
                                  category_id, lista_id, items_data.v, 1, fail)
            IN [st |-> a.st, raised |-> a.raised]

\* The rename validation of lines 274-280 rejects the call
RenameRejected(v) == ~v.ok /\ ~Contains(v.msg, "al menos un")

\* Lines 322-334 with the updated notification emitted on a rename too
UpdateSignals_AlwaysUpdated(lista_id, old_name, new_name, category_id) ==
    <<SigUpdated(lista_id, category_id),
      SigUpdatedLegacy(IF Truthy(new_name) THEN new_name ELSE old_name, category_id)>>

\* Lines 322-334 with "new_name != old_name" alone deciding on renamed
UpdateSignals_AnyOtherName(lista_id, old_name, new_name, category_id) ==
    <<IF new_name # old_name
      THEN SigRenamed(lista_id, old_name, new_name, category_id)
      ELSE SigUpdated(lista_id, category_id),
      SigUpdatedLegacy(IF Truthy(new_name) THEN new_name ELSE old_name, category_id)>>

\* Lines 322-334: the notifications of a successful update_list
UpdateSignals(lista_id, old_name, new_name, category_id) ==
    <<IF Truthy(new_name) /\ new_name # old_name
      THEN SigRenamed(lista_id, old_name, new_name, category_id)
      ELSE SigUpdated(lista_id, category_id),
      SigUpdatedLegacy(IF Truthy(new_name) THEN new_name ELSE old_name, category_id)>>

\* update_list -> [st, out, val, threw]: every exception is caught at line 336
update_list(st, lista_id, new_name, description, items_data, fail) ==
    LET failed(msg) == [st |-> st, out |-> <<SigError(msg)>>, val |-> <<FALSE, msg>>,
                        threw |-> FALSE]
        thrown == [st |-> st, out |-> <<SigError(MsgUpdateError("store"))>>,
                   val |-> <<FALSE, MsgUpdateError("store")>>, threw |-> TRUE]
        lista == db_get_lista(st, lista_id)
    IN
    IF fail = Fail("get_lista", 0) THEN thrown
    ELSE IF ~lista.some THEN failed(MsgNotFound(lista_id))
    ELSE
    LET old_name == lista.v.name
        category_id == lista.v.category_id
        renaming == Truthy(new_name) /\ new_name # old_name
        v1 == validate_list_data(st, new_name,
                                 IF items_data.some THEN items_data.v ELSE <<>>,
                                 category_id, lista_id,
                                 fail = Fail("is_lista_name_unique", 1))
        final_name == IF Truthy(new_name) THEN new_name ELSE old_name
        v2 == validate_list_data(st, final_name, items_data.v, category_id, lista_id,
                                 fail = Fail("is_lista_name_unique", 2))
    IN
    IF renaming /\ v1.raised THEN thrown
    ELSE IF renaming /\ RenameRejected(v1) THEN failed(v1.msg)
    ELSE IF items_data.some /\ v2.raised THEN thrown
    ELSE IF items_data.some /\ ~v2.ok THEN failed(v2.msg)
    ELSE
    LET w == update_list_writes(st, lista_id, category_id, new_name, description,
                                items_data, fail)
    IN IF w.raised
       THEN [thrown EXCEPT !.st = w.st]
       ELSE [st |-> w.st,
             out |-> UpdateSignals(lista_id, old_name, new_name, category_id),
             val |-> <<TRUE, MsgUpdated(final_name)>>, threw |-> FALSE]

\* rename_list: update_list with only new_name given
rename_list(st, lista_id, new_name, fail) ==
    update_list(st, lista_id, new_name, NoneStr, None, fail)

\* Lines 369-371 with the new-style notification left out
DeletedSignals_LegacyOnly(lista_id, list_name, category_id) ==
    <<SigDeletedLegacy(list_name, category_id)>>

\* Lines 369-371: the notifications of a successful delete_list
DeletedSignals(lista_id, list_name, category_id) ==
    <<SigDeleted(lista_id, category_id), SigDeletedLegacy(list_name, category_id)>>

\* delete_list -> [st, out, val, threw]
delete_list(st, lista_id, fail) ==
    LET lista == db_get_lista(st, lista_id)
        thrown == [st |-> st, out |-> <<SigError(MsgDeleteError("store"))>>,
                   val |-> <<FALSE, MsgDeleteError("store")>>, threw |-> TRUE]
    IN
    IF fail = Fail("get_lista", 0) THEN thrown
    ELSE IF ~lista.some
    THEN [st |-> st, out |-> <<SigError(MsgNotFound(lista_id))>>,
          val |-> <<FALSE, MsgNotFound(lista_id)>>, threw |-> FALSE]
    ELSE IF fail = Fail("delete_lista", 0) THEN thrown
    ELSE IF fail = ReturnsFalse("delete_lista")
    THEN [st |-> st, out |-> <<>>, val |-> <<FALSE, MsgDeleteFailed>>, threw |-> TRUE]
    ELSE [st |-> db_delete_lista(st, lista_id),
          out |-> DeletedSignals(lista_id, lista.v.name, lista.v.category_id),
          val |-> <<TRUE, MsgDeleted(lista.v.name)>>, threw |-> FALSE]

\* Line 470 joining all contents but the last
Join_DropLast(separator, contents) ==
    [parts |-> SubSeq(contents, 1, Len(contents) - 1), sep |-> separator]

\* separator.join(contents): the contents and the separator put between them
Join(separator, contents) == [parts |-> contents, sep |-> separator]

\* copy_all_list_items -> [out, val, threw]; clip is how the clipboard call
\* ends
copy_all_list_items(st, lista_id, separator, fail, clip) ==
    LET lista == db_get_lista(st, lista_id)
        its == get_list_items(st, lista_id, fail = Fail("get_items_by_lista", 0))
        text == Join(separator, [k \in DOMAIN its |-> its[k].content])
    IN
    IF fail = Fail("get_lista", 0)
    THEN [out |-> <<SigError(MsgCopyError("store"))>>,
          val |-> <<FALSE, MsgCopyError("store")>>, threw |-> TRUE]
    ELSE IF ~lista.some
    THEN [out |-> <<>>, val |-> <<FALSE, MsgNotFound(lista_id)>>, threw |-> FALSE]
    ELSE IF its = <<>>
    THEN [out |-> <<>>, val |-> <<FALSE, MsgVacia>>,
          threw |-> (fail = Fail("get_items_by_lista", 0))]
    ELSE IF clip = "throw"
    THEN [out |-> <<ClipCall(text, clip), SigError(MsgCopyError("clipboard"))>>,
          val |-> <<FALSE, MsgCopyError("clipboard")>>, threw |-> TRUE]
    ELSE IF clip = "false"
    THEN [out |-> <<ClipCall(text, clip)>>, val |-> <<FALSE, MsgCopyFailed>>,
          threw |-> TRUE]
    ELSE [out |-> <<ClipCall(text, clip)>>,
          val |-> <<TRUE, MsgCopied(lista.v.name, Len(its))>>, threw |-> FALSE]

\* Lines 133-136: the tags every item of the new list gets
AutoTags(list_name) ==
    <<Str("lista", 1)>> \o (IF Truthy(list_name) THEN <<list_name>> ELSE <<>>)

\* Lines 155-158: the existing tags from the i-th on, appended to
\* combined_tags unless falsy or already there
RECURSIVE CombineTags(_, _, _)
CombineTags(combined_tags, existing_tags, i) ==
    IF i > Len(existing_tags) THEN combined_tags
    ELSE LET tag == existing_tags[i] IN
         CombineTags(IF Truthy(tag) /\ \A k \in DOMAIN combined_tags :
                                            combined_tags[k] # tag
                     THEN Append(combined_tags, tag)
                     ELSE combined_tags,
                     existing_tags, i + 1)

\* The loop of lines 140-172: the item data of the ids from the i-th on that
\* the store has, until get_item throws.  r is [items_data, raised].
RECURSIVE GatherItems(_, _, _, _, _, _)
GatherItems(r, st, list_name, item_ids, i, fail) ==
    IF i > Len(item_ids) THEN r
    ELSE IF fail = Fail("get_item", i) THEN [r EXCEPT !.raised = TRUE]
    ELSE LET item == db_get_item(st, item_ids[i]) IN
         GatherItems(
            IF item.some
            THEN [r EXCEPT !.items_data = Append(@,
                     [label |-> item.v.label, content |-> item.v.content,
                      tags |-> CombineTags(AutoTags(list_name), item.v.tags, 1)])]
            ELSE r,
            st, list_name, item_ids, i + 1, fail)

\* "if not items_data" at line 174, never taken
NoValidItems_Never(items_data) == FALSE

\* "if not items_data" at line 174
NoValidItems(items_data) == items_data = <<>>

\* create_list_from_items -> [st, out, val, threw]: every exception is
\* caught at line 184, those that leave create_list included
create_list_from_items(st, list_name, category_id, item_ids, fail) ==
    LET g == GatherItems([items_data |-> <<>>, raised |-> FALSE],
                         st, list_name, item_ids, 1, fail)
        thrown(s, out) ==
            [st |-> s, out |-> Append(out, SigError(MsgFromItemsError("store"))),
             val |-> <<FALSE, MsgFromItemsError("store"), <<>>>>, threw |-> TRUE]
    IN
    IF g.raised THEN thrown(st, <<>>)
    ELSE IF NoValidItems(g.items_data)
    THEN [st |-> st, out |-> <<SigError(MsgNoValidItems)>>,
          val |-> <<FALSE, MsgNoValidItems, <<>>>>, threw |-> FALSE]
    ELSE LET r == create_list(st, category_id, list_name, g.items_data, NoneStr, fail)
         IN IF r.raised THEN thrown(r.st, r.out)
            ELSE [st |-> r.st, out |-> r.out,
                  val |-> <<r.val[1], r.val[2], r.val[4]>>, threw |-> r.threw]

---------------------------------------------------------------------------
(* Actions of the CRUD operations and their specification: the controller  *)
(* is built over a store that holds two lists of category 1.               *)

\* The public calls made that did not start a session
CrudCalls == calls - sess.n

Categories == {1, 2}
Names == {Str("a", 1), Str("b", 1), Str(" ", 2), Str("a", MaxNameLen + 1),
          Str("al menos un", 1)}
OptNames == Names \cup {NoneStr, EmptyStr}
Descriptions == {NoneStr, Str("d", 1)}
ItemSeqs == {<<>>,
             <<ItemData(1)>>,
             <<ItemData(3), ItemData(1)>>,
             <<ItemData(1), [label |-> EmptyStr, content |-> Str("c", 1)]>>,
             <<[label |-> Str("s", MaxLabelLen + 1), content |-> Str("c", 1)]>>,
             [i \in 1..(MaxItems + 1) |-> ItemData(1)]}
OptItemSeqs == {None} \cup {Some(d) : d \in ItemSeqs}
CrudListIds == {1, 3}

CreateFails == {NoFail, Fail("is_lista_name_unique", 1), Fail("create_lista", 0),
                Fail("add_item", 1), Fail("add_item", 2)}
UpdateFails == {NoFail, Fail("get_lista", 0), Fail("is_lista_name_unique", 1),
                Fail("is_lista_name_unique", 2), Fail("update_lista", 0),
                Fail("get_items_by_lista", 0), Fail("delete_item", 1),
                Fail("delete_item", 2), Fail("add_item", 1), Fail("add_item", 2)}

PutStore(st) ==
    /\ listas' = st.listas
    /\ items' = st.items
    /\ next_lista_id' = st.next_lista_id
    /\ next_item_id' = st.next_item_id

\* A call of create_list(category_id, list_name, items_data)
CreateList ==
    /\ CrudCalls < MaxCrudCalls
    /\ \E category_id \in Categories, list_name \in Names, items_data \in ItemSeqs,
          fail \in CreateFails :
         LET r == create_list(Store, category_id, list_name, items_data, NoneStr, fail)
         IN /\ (fail = NoFail) = ~r.threw
            /\ Faulty(IF r.threw THEN 1 ELSE 0)
            /\ PutStore(r.st)
            /\ log' = log \o r.out
            /\ ret' = [op |-> "create_list",
                       args |-> <<category_id, list_name, items_data>>,
                       val |-> r.val, raised |-> r.raised, fail |-> fail,
                       lo |-> Len(log), hi |-> Len(log) + Len(r.out)]
    /\ calls' = calls + 1
    /\ UNCHANGED <<ctl_vars, sess>>

\* A call of update_list(lista_id, new_name, description, items_data)
UpdateList ==
    /\ CrudCalls < MaxCrudCalls
    /\ \E lista_id \in CrudListIds, new_name \in OptNames,
          description \in Descriptions, items_data \in OptItemSeqs,
          fail \in UpdateFails :
         LET r == update_list(Store, lista_id, new_name, description, items_data, fail)
         IN /\ (fail = NoFail) = ~r.threw
            /\ Faulty(IF r.threw THEN 1 ELSE 0)
            /\ PutStore(r.st)
            /\ log' = log \o r.out
            /\ ret' = [op |-> "update_list",
                       args |-> <<lista_id, new_name, description, items_data>>,
                       val |-> r.val, raised |-> FALSE, fail |-> fail,
                       lo |-> Len(log), hi |-> Len(log) + Len(r.out)]
    /\ calls' = calls + 1
    /\ UNCHANGED <<ctl_vars, sess>>

CrudStore ==
    StoredList(
      StoredList(EmptyStore, 1, Str("a", 1), <<ItemData(2), ItemData(1)>>),
      1, Str("b", 1), <<ItemData(1)>>)

InitCrud == InitCtl /\ SetStore(CrudStore)

NextCrud == CreateList \/ UpdateList

SpecCrud == InitCrud /\ [][NextCrud]_vars

---------------------------------------------------------------------------
(* All the operations on lists, over a store that is empty or holds three  *)
(* lists and an item outside them.                                         *)

\* Tags as the store returns them: a repeated tag, an automatic one, an
\* empty one
SourceTags == <<Str("t", 1), Str("lista", 1), EmptyStr, Str("t", 1), Str("a", 1)>>

ListsStore ==
    LET s1 == StoredList(EmptyStore, 1, Str("a", 1), <<ItemData(2), ItemData(1)>>)
        s2 == StoredList(s1, 1, Str("al menos un", 1), <<ItemData(3)>>)
        s3 == StoredList(s2, 2, Str("a", 1), <<>>)
    IN db_add_item(s3, 1, [label |-> Str("s", 4), content |-> Str("c", 4),
                           tags |-> SourceTags], 0, 0)

ListStores == {EmptyStore, ListsStore}

FromNames == {Str("a", 1), Str("b", 1), Str("lista", 1)}
ItemIdSeqs == {<<>>, <<4>>, <<9>>, <<9, 4, 1>>, <<2, 9, 4>>}
FromFails == {NoFail, Fail("get_item", 1), Fail("get_item", 2),
              Fail("is_lista_name_unique", 1), Fail("create_lista", 0),
              Fail("add_item", 1), Fail("add_item", 2)}
RenameFails == {NoFail, Fail("get_lista", 0), Fail("is_lista_name_unique", 1),
                Fail("update_lista", 0)}
DeleteFails == {NoFail, Fail("get_lista", 0), Fail("delete_lista", 0),
                ReturnsFalse("delete_lista")}
CopyFails == {NoFail, Fail("get_lista", 0), Fail("get_items_by_lista", 0)}
Separators == {Str("\n", 1)}

\* A call of create_list_from_items(list_name, category_id, item_ids)
CreateListFromItems ==
    /\ CrudCalls < MaxCrudCalls
    /\ \E list_name \in FromNames, category_id \in Categories,
          item_ids \in ItemIdSeqs, fail \in FromFails :
         LET r == create_list_from_items(Store, list_name, category_id, item_ids, fail)
         IN /\ (fail = NoFail) = ~r.threw
            /\ Faulty(IF r.threw THEN 1 ELSE 0)
            /\ PutStore(r.st)
            /\ log' = log \o r.out
            /\ ret' = [op |-> "create_list_from_items",
                       args |-> <<list_name, category_id, item_ids>>,
                       val |-> r.val, raised |-> FALSE, fail |-> fail,
                       lo |-> Len(log), hi |-> Len(log) + Len(r.out)]
    /\ calls' = calls + 1
    /\ UNCHANGED <<ctl_vars, sess>>

\* A call of rename_list(lista_id, new_name)
RenameList ==
    /\ CrudCalls < MaxCrudCalls
    /\ \E lista_id \in ListIds, new_name \in Names \cup {EmptyStr},
          fail \in RenameFails :
         LET r == rename_list(Store, lista_id, new_name, fail)
         IN /\ (fail = NoFail) = ~r.threw
            /\ Faulty(IF r.threw THEN 1 ELSE 0)
            /\ PutStore(r.st)
            /\ log' = log \o r.out
            /\ ret' = [op |-> "rename_list", args |-> <<lista_id, new_name>>,
                       val |-> r.val, raised |-> FALSE, fail |-> fail,
                       lo |-> Len(log), hi |-> Len(log) + Len(r.out)]
    /\ calls' = calls + 1
    /\ UNCHANGED <<ctl_vars, sess>>

\* A call of delete_list(lista_id)
DeleteList ==
    /\ CrudCalls < MaxCrudCalls
    /\ \E lista_id \in ListIds, fail \in DeleteFails :
         LET r == delete_list(Store, lista_id, fail)
         IN /\ (fail = NoFail) = ~r.threw
            /\ Faulty(IF r.threw THEN 1 ELSE 0)
            /\ PutStore(r.st)
            /\ log' = log \o r.out
            /\ ret' = [op |-> "delete_list", args |-> <<lista_id>>,
                       val |-> r.val, raised |-> FALSE, fail |-> fail,
                       lo |-> Len(log), hi |-> Len(log) + Len(r.out)]
    /\ calls' = calls + 1
    /\ UNCHANGED <<ctl_vars, sess>>

\* A call of copy_all_list_items(lista_id, separator)
CopyAllListItems ==
    /\ CrudCalls < MaxCrudCalls
    /\ \E lista_id \in ListIds, separator \in Separators, fail \in CopyFails,
          clip \in ClipOutcomes :
         LET r == copy_all_list_items(Store, lista_id, separator, fail, clip)
             copied == \E i \in DOMAIN r.out : r.out[i][1] = "copy_text"
         IN \* a failure is chosen only for a call that is made
            /\ clip # "ok" => copied
            /\ (fail = NoFail /\ clip = "ok") = ~r.threw
            /\ fail # NoFail => ~copied
            /\ Faulty(IF r.threw THEN 1 ELSE 0)
            /\ log' = log \o r.out
            /\ ret' = [op |-> "copy_all_list_items", args |-> <<lista_id, separator>>,
                       val |-> r.val, raised |-> FALSE, fail |-> fail,
                       lo |-> Len(log), hi |-> Len(log) + Len(r.out)]
    /\ calls' = calls + 1
    /\ UNCHANGED <<store_vars, ctl_vars, sess>>

InitLists == InitCtl /\ \E st \in ListStores : SetStore(st)

NextLists ==
    \/ CreateList
    \/ CreateListFromItems
    \/ UpdateList
    \/ RenameList
    \/ DeleteList
    \/ CopyAllListItems

SpecLists == InitLists /\ [][NextLists]_vars

---------------------------------------------------------------------------
(* Lists changed while one of them is being executed: the controller was   *)
(* built over ListsStore and execute_list_sequentially(1) has started a    *)
(* session on the two items of list 1.                                     *)

InitLive ==
    LET c0 == [timer |-> 0, items |-> <<>>, index |-> 0, list_name |-> EmptyStr,
               list_id |-> 0, active |-> {}, log |-> <<>>]
        r == execute_list_sequentially(c0, ListsStore, 1, 1, "none", "ok")
    IN /\ SetStore(ListsStore)
       /\ _execution_timer = r.c.timer
       /\ _execution_items = r.c.items
       /\ _execution_index = r.c.index
       /\ _execution_list_name = r.c.list_name
       /\ _execution_list_id = r.c.list_id
       /\ active_timers = r.c.active
       /\ next_timer = 2
       /\ log = r.c.log
       /\ ret = [op |-> "execute_list_sequentially", args |-> <<1>>,
                 val |-> r.val, raised |-> FALSE, lo |-> 0, hi |-> Len(r.c.log)]
       /\ sess = [n |-> 1, list |-> 1,
                  items |-> db_get_items_by_lista(ListsStore, 1),
                  ticks |-> 0, threw |-> FALSE]
       /\ calls = 1
       /\ faults = 0

\* One change of the lists is made while the session runs
UpdateLiveList == CrudCalls = 0 /\ UpdateList

DeleteLiveList == CrudCalls = 0 /\ DeleteList

NextLive == UpdateLiveList \/ DeleteLiveList \/ TimerTick

SpecLive == InitLive /\ [][NextLive]_vars

---------------------------------------------------------------------------
(* validate_list_data on its own, called with and without a category over *)
(* a store that holds lists: the inputs are drawn around the limits of the *)
(* rules.                                                                  *)

ValNames == {NoneStr, EmptyStr, Str(" ", 2), Str("a", 1), Str("a", MaxNameLen),
             Str("a", MaxNameLen + 1), Str("al menos un", 1)}
ValLabels == {EmptyStr, Str("s", 1), Str("s", MaxLabelLen), Str("s", MaxLabelLen + 1)}
ValLens == {0, 1, 2, MaxItems, MaxItems + 1}
\* n items, the p-th with the label l
ValItems(n, p, l) ==
    [i \in 1..n |-> IF i = p THEN [label |-> l, content |-> Str("c", 1)]
                    ELSE ItemData(1)]
ValItemSeqs ==
    {ValItems(n, p, l) : n \in ValLens, p \in {1, 2, MaxItems}, l \in ValLabels}
        \cup {<<[label |-> Str("s", MaxLabelLen + 1), content |-> Str("c", 1)],
                [label |-> EmptyStr, content |-> Str("c", 1)]>>,
              <<ItemData(1), [label |-> EmptyStr, content |-> Str("c", 1)],
                [label |-> Str("s", MaxLabelLen + 1), content |-> Str("c", 1)]>>}
\* 0 is None, for category_id and for exclude_list_id
ValCategories == {0, 1}
ValExcludes == {0, 1}
ValFails == {NoFail, Fail("is_lista_name_unique", 1)}

InitValidate ==
    /\ SetStore(ListsStore)
    /\ _execution_timer = 0
    /\ _execution_items = <<>>
    /\ _execution_index = 0
    /\ _execution_list_name = EmptyStr
    /\ _execution_list_id = 0
    /\ active_timers = {}
    /\ next_timer = 1
    /\ log = <<>>
    /\ \E list_name \in ValNames, items_data \in ValItemSeqs,
          category_id \in ValCategories, exclude_list_id \in ValExcludes,
          fail \in ValFails :
          ret = [op |-> "none",
                 args |-> <<list_name, items_data, category_id, exclude_list_id>>,
                 val |-> FALSE, raised |-> FALSE, fail |-> fail, lo |-> 0, hi |-> 0]
    /\ sess = [n |-> 0, list |-> 0, items |-> <<>>, ticks |-> 0, threw |-> FALSE]
    /\ calls = 0
    /\ faults = 0

\* A call of validate_list_data(list_name, items_data, category_id,
\* exclude_list_id), over a store whose uniqueness check throws if ret.fail
\* says so
ValidateListData ==
    /\ ret.op = "none"
    /\ LET v == validate_list_data(Store, ret.args[1], ret.args[2], ret.args[3],
                                   ret.args[4], ret.fail # NoFail)
       IN ret' = [ret EXCEPT !.op = "validate_list_data", !.val = <<v.ok, v.msg>>,
                             !.raised = v.raised]
    /\ calls' = calls + 1
    /\ UNCHANGED <<store_vars, ctl_vars, log, sess, faults>>

NextValidate == ValidateListData

SpecValidate == InitValidate /\ [][NextValidate]_vars

---------------------------------------------------------------------------
(* The Lista model (src/src/models/lista.py): equality and hash of two     *)
(* objects drawn from a bounded set.                                       *)

\* Lista(lista_id, category_id, name, ...) with its calculated item_count
Lista(lista_id, category_id, name, description, updated_at, use_count, item_count) ==
    [cls |-> "Lista", id |-> lista_id, category_id |-> category_id, name |-> name,
     description |-> description, updated_at |-> updated_at,
     use_count |-> use_count, item_count |-> item_count]

\* hash() of a tuple of two small integers: a function of the two alone,
\* here a polynomial cut to 16 bits
hash(t) == (31 * (31 + t[1]) + t[2]) % (2 ^ 16)

\* Lista.__eq__ comparing the ids only
__eq___IdOnly(self, other) ==
    IF other.cls # "Lista" THEN FALSE
    ELSE self.id = other.id

\* Lista.__eq__
__eq__(self, other) ==
    IF other.cls # "Lista" THEN FALSE
    ELSE self.id = other.id /\ self.category_id = other.category_id

\* Lista.__hash__
__hash__(self) == hash(<<self.id, self.category_id>>)

Listas ==
    {Lista(i, c, n, d, t, u, k) :
        i \in {1, 2}, c \in {1, 2}, n \in {Str("a", 1), Str("b", 1)},
        d \in {NoneStr}, t \in {"2024-01-01T00:00:00"}, u \in {0, 1}, k \in {0, 2}}
        \cup {Lista(1, 1, Str("a", 1), Str("d", 1), "2025-06-30T12:00:00", 0, 0)}
\* The objects a Lista is compared with: other Listas and something else
Others == Listas \cup {[cls |-> "dict", id |-> 1, category_id |-> 1]}

InitLista ==
    /\ SetStore(EmptyStore)
    /\ _execution_timer = 0
    /\ _execution_items = <<>>
    /\ _execution_index = 0
    /\ _execution_list_name = EmptyStr
    /\ _execution_list_id = 0
    /\ active_timers = {}
    /\ next_timer = 1
    /\ log = <<>>
    /\ \E self \in Listas, other \in Others :
          ret = [op |-> "none", args |-> <<self, other>>, val |-> FALSE,
                 raised |-> FALSE, lo |-> 0, hi |-> 0]
    /\ sess = [n |-> 0, list |-> 0, items |-> <<>>, ticks |-> 0, threw |-> FALSE]
    /\ calls = 0
    /\ faults = 0

\* self == other, and hash(self)
CompareListas ==
    /\ ret.op = "none"
    /\ ret' = [ret EXCEPT !.op = "__eq__",
                          !.val = <<__eq__(ret.args[1], ret.args[2]),
                                    __hash__(ret.args[1])>>]
    /\ calls' = calls + 1
    /\ UNCHANGED <<store_vars, ctl_vars, log, sess, faults>>

NextLista == CompareListas

SpecLista == InitLista /\ [][NextLista]_vars

---------------------------------------------------------------------------
(* Reading the log *)

Min(a, b) == IF a <= b THEN a ELSE b

IsSig(e, name) == e[1] = name

\* Index of the last started notification, 0 if there is none
LastStarted ==
    LET S == {i \in DOMAIN log : IsSig(log[i], "execution_started")}
    IN IF S = {} THEN 0 ELSE CHOOSE i \in S : \A j \in S : j <= i

\* What happened since the last session started, that notification included
SessLog == IF LastStarted = 0 THEN <<>> ELSE SubSeq(log, LastStarted, Len(log))

IsPlay(e) == IsSig(e, "copy_text") \/ IsSig(e, "execution_step")
IsEnd(e) == IsSig(e, "execution_completed") \/ IsSig(e, "execution_cancelled")
IsBoundary(e) == IsSig(e, "execution_started") \/ IsEnd(e)

\* The clipboard calls and step notifications of the last session
Played == SelectSeq(SessLog, IsPlay)
Ended == SelectSeq(SessLog, IsEnd)

\* The events of the last public call
CallLog == SubSeq(log, ret.lo + 1, ret.hi)

Idle ==
    /\ _execution_timer = 0
    /\ _execution_items = <<>>
    /\ _execution_index = 0
    /\ _execution_list_id = 0
    /\ _execution_list_name = EmptyStr

\* The last session has met no cancellation and no exception in a step
Clean ==
    /\ sess.n > 0
    /\ ~sess.threw
    /\ LET sl == SessLog
       IN \A i \in DOMAIN sl : ~IsSig(sl[i], "execution_cancelled")

\* Item j of the last session was submitted to the clipboard and announced,
\* played being the clipboard calls and step notifications of that session
PlayedItemIn(played, j) ==
    /\ 2 * j <= Len(played)
    /\ IsSig(played[2 * j - 1], "copy_text")
    /\ played[2 * j - 1][2] = sess.items[j].content
    /\ played[2 * j] = SigStep(j, sess.items[j].label)

PlayedItem(j) == PlayedItemIn(Played, j)

---------------------------------------------------------------------------
(* C1: a session of n >= 1 items that meets no cancellation, no new start  *)
(* and no exception emits started(list_id, n) first, then copies item k    *)
(* and emits step(k, label_k) for k = 1..n in display order, each once:    *)
(* step 1 inside the call that started it, steps 2..n one per timer tick.  *)
C1_StepsInOrder ==
    Clean =>
        LET n == Len(sess.items)
            k == Min(n, 1 + sess.ticks)
            at == LastStarted
            played == Played
        IN /\ n >= 1
           /\ log[at] = SigStarted(sess.list, n)
           /\ Len(played) = 2 * k
           /\ \A j \in 1..k : PlayedItemIn(played, j)
           /\ (ret.op = "execute_list_sequentially" /\ ret.lo < at /\ at <= ret.hi)
              => /\ ret.hi >= at + 2
                 /\ log[at + 2] = SigStep(1, sess.items[1].label)

C1_Witness ==
    /\ Clean
    /\ Len(sess.items) = 3
    /\ sess.ticks = 2
    /\ Len(Played) = 6
    /\ PlayedItem(3)

(* C2, as claimed: every started session comes to emit exactly one of      *)
(* completed(L) and cancelled, and the controller is idle afterwards.  When *)
(* no timer is active no tick is pending, so the session must be over.     *)
C2_SessionEnds ==
    (sess.n > 0 /\ active_timers = {}) =>
        /\ Len(Ended) = 1
        /\ Ended[1] \in {SigCompleted(sess.list), SigCancelled}
        /\ Idle

(* C3, as claimed: between the started notifications of two sessions there *)
(* is a completed or a cancelled notification: a session still open when  *)
(* the next one starts is cancelled first.                                 *)
C3_CancelledBeforeRestart ==
    \A i, j \in DOMAIN log :
        (i < j /\ IsSig(log[i], "execution_started")
               /\ IsSig(log[j], "execution_started"))
        => \E k \in (i + 1)..(j - 1) : IsEnd(log[k])

(* C4: at most one session is active.  The only timer that can tick is the *)
(* one the controller holds; no item is copied and no step or completed is *)
(* emitted outside an open session, so none after a cancellation; every    *)
(* step since the last start announces an item of that session.            *)
OpenAt(i) ==
    LET B == {k \in 1..(i - 1) : IsBoundary(log[k])}
    IN /\ B # {}
       /\ IsSig(log[CHOOSE k \in B : \A q \in B : q <= k], "execution_started")

C4_OneSession ==
    /\ active_timers \subseteq {_execution_timer}
    /\ \A i \in DOMAIN log :
          (IsPlay(log[i]) \/ IsSig(log[i], "execution_completed")) => OpenAt(i)
    /\ LET played == Played
       IN \A i \in DOMAIN played :
             IsSig(played[i], "execution_step")
             => /\ played[i][2] \in DOMAIN sess.items
                /\ played[i] = SigStep(played[i][2], sess.items[played[i][2]].label)
    /\ (Ended # <<>>) => active_timers = {}

C4_Witness ==
    /\ sess.n >= 2
    /\ sess.ticks >= 1
    /\ Len(Played) >= 4
    /\ \E i \in 1..(LastStarted - 1) : IsSig(log[i], "execution_cancelled")

(* C5, as claimed: after n - 1 ticks items 2..n have been copied and the   *)
(* completed notification has already been emitted.  Stated for the lists  *)
(* of the scenario, those of two or more items, whose timer does run.      *)
C5_CompletedAfterLastStep ==
    (Clean /\ Len(sess.items) >= 2 /\ sess.ticks >= Len(sess.items) - 1) =>
        /\ \A j \in 1..Len(sess.items) : PlayedItem(j)
        /\ \E i \in DOMAIN SessLog : SessLog[i] = SigCompleted(sess.list)

(* C5, amended: item 1 is copied at once and after n - 1 ticks items 2..n  *)
(* have been copied; completed(list id) is emitted by the n-th tick, one   *)
(* tick after the last item, and not before.                               *)
C5_CompletedOneTickLater ==
    Clean =>
        LET n == Len(sess.items)
            sl == SessLog
            played == SelectSeq(sl, IsPlay)
        IN
        /\ PlayedItemIn(played, 1)
        /\ sess.ticks >= n - 1 => \A j \in 1..n : PlayedItemIn(played, j)
        /\ (\E i \in DOMAIN sl : sl[i] = SigCompleted(sess.list))
              <=> sess.ticks >= n
        /\ sess.ticks <= n

C5_Witness ==
    /\ Clean
    /\ Len(sess.items) = 3
    /\ sess.ticks = 3
    /\ SessLog[Len(SessLog)] = SigCompleted(sess.list)

(* C6: cancel_execution emits cancelled and resets the session fields if   *)
(* and only if a timer exists and is active; otherwise it emits nothing    *)
(* and changes no field.  After it no timer is active, so a second call    *)
(* in a row emits nothing.                                                 *)
C6_CancelStep ==
    (calls' = calls + 1 /\ ret'.op = "cancel_execution") =>
        /\ IF is_executing(Ctl)
           THEN /\ log' = Append(log, SigCancelled)
                /\ Idle'
           ELSE UNCHANGED <<_execution_timer, _execution_items, _execution_index,
                            _execution_list_name, _execution_list_id, log>>
        /\ active_timers' = {}
        /\ UNCHANGED store_vars

\* C6: every step of the controller is as C6_CancelStep says
C6_CancelOnlyWhenActive == [][C6_CancelStep]_vars

\* A second cancel_execution right after one that cancelled a session
C6_Witness ==
    /\ ret.op = "cancel_execution"
    /\ ret.hi = ret.lo
    /\ ret.lo > 0
    /\ log[ret.lo] = SigCancelled

(* C7: execute_list_sequentially on a list id the store does not have, or  *)
(* on a list without items, returns false and emits one error (with        *)
(* "vacía" for the empty list, when the store answers), no started, no    *)
(* step, and copies nothing.                                               *)
C7_FailStep ==
    (calls' = calls + 1 /\ ret'.op = "execute_list_sequentially") =>
        LET lista_id == ret'.args[1]
            absent == ~db_get_lista(Store, lista_id).some
            empty == ~absent /\ db_get_items_by_lista(Store, lista_id) = <<>>
        IN (absent \/ empty) =>
              /\ ret'.val = FALSE
              /\ Len(log') = Len(log) + 1
              /\ SubSeq(log', 1, Len(log)) = log
              /\ IsSig(log'[Len(log')], "error_occurred")
              /\ (empty /\ faults' = faults) => Contains(log'[Len(log')][2], "vacía")
              /\ UNCHANGED <<_execution_timer, _execution_items, _execution_index,
                             active_timers>>

\* C7: every step of the controller is as C7_FailStep says
C7_AbsentOrEmptyFails == [][C7_FailStep]_vars

C7_Witness ==
    /\ ret.op = "execute_list_sequentially"
    /\ db_get_lista(Store, ret.args[1]).some
    /\ db_get_items_by_lista(Store, ret.args[1]) = <<>>
    /\ ret.hi = Len(log)
    /\ log[ret.hi] = SigError(MsgVacia)
    /\ faults = 0

(* C8, as claimed: a call of execute_list_sequentially that emits started  *)
(* returns true.                                                           *)
C8_StartedReturnsTrue ==
    (ret.op = "execute_list_sequentially"
       /\ \E i \in DOMAIN CallLog : IsSig(CallLog[i], "execution_started"))
    => ret.val = TRUE

(* C9: after a successful create_list(category, name, items) the items    *)
(* get_list_items returns for the new list are the submitted ones in the   *)
(* submitted order, the k-th with orden_lista = k and the new list's id;   *)
(* the call returns a positive list id and the item ids in that order, and *)
(* emits created(list_id, category_id), then the legacy created.           *)
C9_CreateThenRead ==
    (ret.op = "create_list" /\ ~ret.raised /\ ret.val[1] = TRUE) =>
        LET category_id == ret.args[1]
            list_name == ret.args[2]
            items_data == ret.args[3]
            lista_id == ret.val[3]
            item_ids == ret.val[4]
            got == get_list_items(Store, lista_id, FALSE)
        IN /\ lista_id > 0
           /\ db_get_lista(Store, lista_id).some
           /\ db_get_lista(Store, lista_id).v.name = list_name
           /\ db_get_lista(Store, lista_id).v.category_id = category_id
           /\ Len(got) = Len(items_data)
           /\ Len(item_ids) = Len(items_data)
           /\ \A k \in DOMAIN items_data :
                 /\ got[k].label = items_data[k].label
                 /\ got[k].content = items_data[k].content
                 /\ got[k].orden_lista = k
                 /\ got[k].list_id = lista_id
                 /\ got[k].id = item_ids[k]
           /\ CallLog = <<SigCreated(lista_id, category_id),
                          SigCreatedLegacy(list_name, category_id)>>

C9_Witness ==
    /\ ret.op = "create_list"
    /\ ~ret.raised
    /\ ret.val[1] = TRUE
    /\ Len(ret.args[3]) = 2
    /\ Len(get_list_items(Store, ret.val[3], FALSE)) = 2

(* C10, as claimed: a create_list or update_list call whose input fails    *)
(* validation writes nothing to the store, returns failure (create_list:   *)
(* (false, message, 0, [])) and emits one error notification and nothing   *)
(* else.                                                                   *)
C10_InvalidStep ==
    /\ (calls' = calls + 1 /\ ret'.op = "create_list" /\ faults' = faults) =>
          LET v == validate_list_data(Store, ret'.args[2], ret'.args[3],
                                      ret'.args[1], 0, FALSE)
          IN ~v.ok =>
                /\ UNCHANGED store_vars
                /\ ~ret'.raised
                /\ ret'.val = <<FALSE, v.msg, 0, <<>>>>
                /\ log' = Append(log, SigError(v.msg))
    /\ (calls' = calls + 1 /\ ret'.op = "update_list" /\ faults' = faults
          /\ db_get_lista(Store, ret'.args[1]).some) =>
          LET lista == db_get_lista(Store, ret'.args[1]).v
              new_name == ret'.args[2]
              items_data == ret'.args[4]
              v1 == validate_list_data(Store, new_name,
                                       IF items_data.some THEN items_data.v ELSE <<>>,
                                       lista.category_id, lista.id, FALSE)
              v2 == validate_list_data(Store,
                                       IF Truthy(new_name) THEN new_name ELSE lista.name,
                                       items_data.v, lista.category_id, lista.id, FALSE)
              bad_name == Truthy(new_name) /\ new_name # lista.name
                          /\ ~v1.ok /\ v1.msg # MsgNoItems
              bad_items == items_data.some /\ ~v2.ok
          IN (bad_name \/ bad_items) =>
                /\ UNCHANGED store_vars
                /\ ret'.val[1] = FALSE
                /\ ret'.val[2] = (IF bad_name THEN v1.msg ELSE v2.msg)
                /\ log' = Append(log, SigError(ret'.val[2]))

\* C10: every step of the controller is as C10_InvalidStep says
C10_InvalidInputWritesNothing == [][C10_InvalidStep]_vars

\* The invariant of the stored lists: names non-empty after trimming, at most
\* 100 characters long, and unique within their category
NamesValid(st) ==
    \A l \in st.listas :
        /\ Truthy(l.name) /\ Truthy(strip(l.name))
        /\ len(l.name) <= MaxNameLen
        /\ \A m \in st.listas :
              (m.category_id = l.category_id /\ m.name = l.name) => m.id = l.id

(* C11, as claimed: as long as no store call has failed, after any calls   *)
(* of create_list, create_list_from_items, update_list, rename_list and    *)
(* delete_list every stored list has a name that is non-empty after        *)
(* trimming and at most 100 characters long, and no two lists of one       *)
(* category have the same name.                                            *)
C11_NamesValidAndUnique == faults = 0 => NamesValid(Store)

(* C12: after a successful update_list(lista_id, items_data=new_items),    *)
(* get_list_items(lista_id) returns exactly new_items in the given order,  *)
(* the k-th with orden_lista = k; none of the rows the list had before is  *)
(* left in the store, and the items of other lists are as they were.       *)
C12_ReplaceStep ==
    (calls' = calls + 1 /\ ret'.op = "update_list" /\ ret'.val[1] = TRUE
       /\ ret'.args[4].some) =>
        LET lista_id == ret'.args[1]
            new_items == ret'.args[4].v
            got == get_list_items(Store', lista_id, FALSE)
        IN /\ Len(got) = Len(new_items)
           /\ \A k \in DOMAIN new_items :
                 /\ got[k].label = new_items[k].label
                 /\ got[k].content = new_items[k].content
                 /\ got[k].orden_lista = k
           /\ \A r \in items : r.list_id = lista_id =>
                 ~ \E q \in items' : q.id = r.id
           /\ {r \in items' : r.list_id # lista_id}
                 = {r \in items : r.list_id # lista_id}

\* C12: every step of the controller is as C12_ReplaceStep says
C12_ItemsReplaced == [][C12_ReplaceStep]_vars

\* The two items of list 1 were replaced by two others
C12_Witness ==
    /\ ret.op = "update_list"
    /\ ret.val[1] = TRUE
    /\ ret.args[1] = 1
    /\ ret.args[4] = Some(<<ItemData(3), ItemData(1)>>)
    /\ Len(get_list_items(Store, 1, FALSE)) = 2
    /\ get_list_items(Store, 1, FALSE)[1].label = Str("s", 3)
    /\ ~ \E r \in items : r.id \in {1, 2}
    /\ \E r \in items : r.list_id = 2

(* C13: a successful update_list (rename_list included) emits two          *)
(* notifications: first renamed(lista_id, old_name, new_name, category_id) *)
(* if a name was given that differs from the stored one, and otherwise     *)
(* updated(lista_id, category_id), never both; then the legacy updated     *)
(* with the name the list has after the call.  An empty name counts as no  *)
(* name given.                                                             *)
C13_SignalStep ==
    (calls' = calls + 1 /\ ret'.op \in {"update_list", "rename_list"}
       /\ ret'.val[1] = TRUE) =>
        LET lista_id == ret'.args[1]
            new_name == ret'.args[2]
            before == db_get_lista(Store, lista_id).v
            after == db_get_lista(Store', lista_id).v
            out == SubSeq(log', Len(log) + 1, Len(log'))
            Count(name) == Cardinality({i \in DOMAIN out : IsSig(out[i], name)})
            renames == Truthy(new_name) /\ new_name # before.name
        IN /\ Len(out) = 2
           /\ Count("list_renamed") = (IF renames THEN 1 ELSE 0)
           /\ Count("list_updated") = (IF renames THEN 0 ELSE 1)
           /\ renames =>
                 out[1] = SigRenamed(lista_id, before.name, new_name,
                                     before.category_id)
           /\ ~renames => out[1] = SigUpdated(lista_id, before.category_id)
           /\ out[2] = SigUpdatedLegacy(after.name, before.category_id)

\* C13: every step of the controller is as C13_SignalStep says
C13_RenamedOrUpdated == [][C13_SignalStep]_vars

\* List 1 was renamed from "a" to "al menos un"
C13_Witness ==
    /\ ret.op = "update_list"
    /\ ret.val[1] = TRUE
    /\ CallLog = <<SigRenamed(1, Str("a", 1), Str("al menos un", 1), 1),
                   SigUpdatedLegacy(Str("al menos un", 1), 1)>>
    /\ db_get_lista(Store, 1).v.name = Str("al menos un", 1)

\* The notifications of the call that a step makes
StepLog == SubSeq(log', Len(log) + 1, Len(log'))

(* C14: after a successful delete_list(lista_id) get_lista(lista_id) finds *)
(* nothing and get_items_by_lista(lista_id) is empty, every other list and *)
(* its items are unchanged, and deleted(lista_id, category_id), then the   *)
(* legacy deleted(name, category_id), are emitted; delete_list on an       *)
(* absent id fails, deletes nothing and emits no deleted notification.     *)
C14_DeleteStep ==
    (calls' = calls + 1 /\ ret'.op = "delete_list") =>
        LET lista_id == ret'.args[1]
            lista == db_get_lista(Store, lista_id)
        IN /\ ret'.val[1] = TRUE =>
                /\ lista.some
                /\ ~db_get_lista(Store', lista_id).some
                /\ db_get_items_by_lista(Store', lista_id) = <<>>
                /\ listas' = {l \in listas : l.id # lista_id}
                /\ items' = {r \in items : r.list_id # lista_id}
                /\ StepLog = <<SigDeleted(lista_id, lista.v.category_id),
                               SigDeletedLegacy(lista.v.name, lista.v.category_id)>>
           /\ ~lista.some =>
                /\ ret'.val[1] = FALSE
                /\ listas' = listas /\ items' = items
                /\ \A i \in DOMAIN StepLog :
                      /\ ~IsSig(StepLog[i], "list_deleted")
                      /\ ~IsSig(StepLog[i], "list_deleted_legacy")

\* C14: every step of the controller is as C14_DeleteStep says
C14_DeleteRemovesList == [][C14_DeleteStep]_vars

\* List 1 and its two items were deleted, list 2 and the other items stay
C14_Witness ==
    /\ ret.op = "delete_list"
    /\ ret.args[1] = 1
    /\ ret.val[1] = TRUE
    /\ ~db_get_lista(Store, 1).some
    /\ db_get_lista(Store, 2).some
    /\ {r.id : r \in items} = {3, 4}
    /\ CallLog = <<SigDeleted(1, 1), SigDeletedLegacy(Str("a", 1), 1)>>

(* C15, as claimed: no exception leaves a public operation of the          *)
(* controller, whichever store or clipboard call throws.                   *)
C15_NoExceptionLeaves == ~ret.raised

(* C16, as claimed: update_list, rename_list, delete_list,                 *)
(* copy_all_list_items and execute_list_sequentially, called with a list   *)
(* id the store does not have, return failure, emit an error notification  *)
(* and leave the store as it was.                                          *)
C16_AbsentStep ==
    (calls' = calls + 1 /\ faults' = faults
       /\ ret'.op \in {"update_list", "rename_list", "delete_list",
                       "copy_all_list_items", "execute_list_sequentially"}
       /\ ~db_get_lista(Store, ret'.args[1]).some) =>
        /\ IF ret'.op = "execute_list_sequentially"
           THEN ret'.val = FALSE
           ELSE ret'.val[1] = FALSE
        /\ \E i \in DOMAIN StepLog : IsSig(StepLog[i], "error_occurred")
        /\ UNCHANGED store_vars

\* C16: every step of the controller is as C16_AbsentStep says
C16_AbsentIdIsAnError == [][C16_AbsentStep]_vars

\* The store after create_list wrote the list row and its first n items
CreatedUpTo(st, category_id, list_name, items_data, n) ==
    AddItems(db_create_lista(st, category_id, list_name, NoneStr),
             category_id, st.next_lista_id, SubSeq(items_data, 1, n), 1)

(* C17: when a store call throws after validation passed, in create_list   *)
(* (create_lista or the k-th add_item) or in the replace path of           *)
(* update_list (get_items_by_lista, the j-th delete_item or the k-th       *)
(* add_item), no exception leaves the call, one error notification and     *)
(* nothing else is emitted, failure is returned (create_list: (false,     *)
(* message, 0, [])), and the store holds what was written before the       *)
(* failure: the list row, a changed name or description, the deletions     *)
(* done and the items 1..k-1.                                              *)
C17_FailStep ==
    /\ (calls' = calls + 1 /\ ret'.op = "create_list"
          /\ ret'.fail[1] \in {"create_lista", "add_item"}) =>
          LET category_id == ret'.args[1]
              list_name == ret'.args[2]
              items_data == ret'.args[3]
              k == ret'.fail[2]
          IN /\ ~ret'.raised
             /\ ret'.val[1] = FALSE /\ ret'.val[3] = 0 /\ ret'.val[4] = <<>>
             /\ StepLog = <<SigError(ret'.val[2])>>
             /\ Store' = IF ret'.fail[1] = "create_lista" THEN Store
                         ELSE CreatedUpTo(Store, category_id, list_name,
                                          items_data, k - 1)
    /\ (calls' = calls + 1 /\ ret'.op = "update_list"
          /\ ret'.fail[1] \in {"get_items_by_lista", "delete_item", "add_item"}) =>
          LET lista_id == ret'.args[1]
              new_name == ret'.args[2]
              description == ret'.args[3]
              items_data == ret'.args[4].v
              k == ret'.fail[2]
              lista == db_get_lista(Store, lista_id).v
              old == db_get_items_by_lista(Store, lista_id)
              gone == IF ret'.fail[1] = "get_items_by_lista" THEN {}
                      ELSE IF ret'.fail[1] = "delete_item"
                      THEN {old[j] : j \in 1..(k - 1)}
                      ELSE {old[j] : j \in DOMAIN old}
              added == IF ret'.fail[1] = "add_item" THEN k - 1 ELSE 0
          IN /\ ret'.val[1] = FALSE
             /\ StepLog = <<SigError(ret'.val[2])>>
             /\ listas' = (listas \ {lista}) \cup
                    {[lista EXCEPT
                        !.name = IF Truthy(new_name) THEN new_name ELSE @,
                        !.description = IF description # NoneStr
                                        THEN description ELSE @]}
             /\ Store'.items =
                    AddItems([Store EXCEPT !.items = @ \ gone],
                             lista.category_id, lista_id,
                             SubSeq(items_data, 1, added), 1).items

\* C17: every step of the controller is as C17_FailStep says
C17_CaughtWithoutRollback == [][C17_FailStep]_vars

\* update_list renamed list 1 and deleted its two items, and the second
\* add_item threw: the list is left with the new name and one new item
C17_Witness ==
    /\ ret.op = "update_list"
    /\ ret.fail = Fail("add_item", 2)
    /\ ret.args[1] = 1
    /\ Truthy(ret.args[2]) /\ ret.args[2] # Str("a", 1)
    /\ ret.val[1] = FALSE
    /\ db_get_lista(Store, 1).v.name = ret.args[2]
    /\ Len(db_get_items_by_lista(Store, 1)) = 1
    /\ ~ \E r \in items : r.id \in {1, 2}
    /\ log = <<SigError(ret.val[2])>>

(* C18: validate_list_data(name, items) without a category answers ok      *)
(* exactly when the name is non-empty after trimming and at most 100       *)
(* characters long, there are between 1 and 50 items, and every item has   *)
(* a non-empty label of at most 200 characters.                            *)
C18_ValidExactlyWhen ==
    (ret.op = "validate_list_data" /\ ret.args[3] = 0) =>
        LET name == ret.args[1]
            its == ret.args[2]
        IN ret.val[1] =
             (/\ name # NoneStr /\ name # EmptyStr /\ strip(name) # EmptyStr
              /\ len(name) <= 100
              /\ 1 <= Len(its) /\ Len(its) <= 50
              /\ \A i \in DOMAIN its :
                    its[i].label # EmptyStr /\ len(its[i].label) <= 200)

\* A name of 100 characters with 50 items, one of them with a label of 200
\* characters, was accepted
C18_Witness ==
    /\ ret.op = "validate_list_data"
    /\ ret.args[3] = 0
    /\ len(ret.args[1]) = 100
    /\ Len(ret.args[2]) = 50
    /\ \E i \in DOMAIN ret.args[2] : len(ret.args[2][i].label) = 200
    /\ ret.val[1] = TRUE

\* The ids of item_ids that the store has, in their order
FoundIds(st, item_ids) ==
    LET Has(id) == db_get_item(st, id).some IN SelectSeq(item_ids, Has)

(* C19: create_list_from_items(name, category, item_ids), no store call    *)
(* failing, skips the ids the store does not have: a successful call       *)
(* creates the list with the label and content of the items it found, in   *)
(* the order of their ids, and returns the new item ids; a call with a     *)
(* free name and at least one id found succeeds.  If no id is found it     *)
(* returns (false, the no-valid-items message, []), emits one error        *)
(* notification and leaves the store as it was.                            *)
C19_FromItemsStep ==
    (calls' = calls + 1 /\ faults' = faults /\ ret'.op = "create_list_from_items") =>
        LET list_name == ret'.args[1]
            category_id == ret'.args[2]
            found == FoundIds(Store, ret'.args[3])
            got == db_get_items_by_lista(Store', next_lista_id)
        IN /\ found = <<>> =>
                /\ ret'.val = <<FALSE, MsgNoValidItems, <<>>>>
                /\ StepLog = <<SigError(MsgNoValidItems)>>
                /\ UNCHANGED store_vars
           /\ (found # <<>>
                 /\ db_is_lista_name_unique(Store, category_id, list_name, 0))
                => ret'.val[1] = TRUE
           /\ ret'.val[1] = TRUE =>
                /\ found # <<>>
                /\ db_get_lista(Store', next_lista_id).some
                /\ db_get_lista(Store', next_lista_id).v.name = list_name
                /\ Len(got) = Len(found)
                /\ \A k \in DOMAIN found :
                      /\ got[k].label = db_get_item(Store, found[k]).v.label
                      /\ got[k].content = db_get_item(Store, found[k]).v.content
                      /\ got[k].orden_lista = k
                /\ ret'.val[3] = [k \in DOMAIN got |-> got[k].id]

\* C19: every step of the controller is as C19_FromItemsStep says
C19_MissingItemsSkipped == [][C19_FromItemsStep]_vars

\* Of the ids 9, 4, 1 the store has 4 and 1: the new list has their two items
C19_Witness ==
    /\ ret.op = "create_list_from_items"
    /\ ret.args[3] = <<9, 4, 1>>
    /\ ret.val[1] = TRUE
    /\ Len(ret.val[3]) = 2
    /\ db_get_item(Store, ret.val[3][1]).v.label = Str("s", 4)
    /\ db_get_item(Store, ret.val[3][2]).v.label = Str("s", 2)
    /\ db_get_item(Store, ret.val[3][2]).v.orden_lista = 2

\* The tags of a sequence from the i-th on that are non-empty, not in seen,
\* and not repeated
RECURSIVE RemainingTags(_, _, _)
RemainingTags(tags, seen, i) ==
    IF i > Len(tags) THEN <<>>
    ELSE IF tags[i] = EmptyStr \/ tags[i] \in seen
    THEN RemainingTags(tags, seen, i + 1)
    ELSE <<tags[i]>> \o RemainingTags(tags, seen \cup {tags[i]}, i + 1)

(* C20, as claimed: the tags of an item that create_list_from_items        *)
(* created are "lista", the list name, then the remaining tags of the      *)
(* source item in their order, and no tag occurs twice among them.         *)
C20_TagsStep ==
    (calls' = calls + 1 /\ ret'.op = "create_list_from_items"
       /\ ret'.val[1] = TRUE) =>
        LET list_name == ret'.args[1]
            found == FoundIds(Store, ret'.args[3])
            got == db_get_items_by_lista(Store', next_lista_id)
        IN \A k \in DOMAIN got :
              LET tags == got[k].tags
                  source == db_get_item(Store, found[k]).v.tags
              IN /\ tags = <<Str("lista", 1), list_name>>
                              \o RemainingTags(source, {Str("lista", 1), list_name}, 1)
                 /\ \A i, j \in DOMAIN tags : tags[i] = tags[j] => i = j

\* C20: every step of the controller is as C20_TagsStep says
C20_TagsMergedWithoutRepeats == [][C20_TagsStep]_vars

(* C21: update_list or rename_list with the name the list already has, no  *)
(* store call failing, leaves the stored name as it is and is never        *)
(* rejected as a duplicate on account of the list's own row, also when     *)
(* items are replaced in the same call: it succeeds whenever the items, if *)
(* given, are valid.                                                       *)
C21_SameNameStep ==
    (calls' = calls + 1 /\ faults' = faults
       /\ ret'.op \in {"update_list", "rename_list"}
       /\ db_get_lista(Store, ret'.args[1]).some
       /\ ret'.args[2] = db_get_lista(Store, ret'.args[1]).v.name) =>
        LET lista == db_get_lista(Store, ret'.args[1]).v
            items_data == IF ret'.op = "update_list" THEN ret'.args[4] ELSE None
            others == \E l \in listas : /\ l.id # lista.id
                                         /\ l.category_id = lista.category_id
                                         /\ l.name = lista.name
            items_ok == items_data.some =>
                          validate_list_data(Store, lista.name, items_data.v,
                                             0, 0, FALSE).ok
        IN /\ db_get_lista(Store', lista.id).v.name = lista.name
           /\ ~others => ret'.val[2] # MsgDuplicate(lista.name)
           /\ (~others /\ items_ok) => ret'.val[1] = TRUE

\* C21: every step of the controller is as C21_SameNameStep says
C21_OwnNameIsNoDuplicate == [][C21_SameNameStep]_vars

\* update_list(1, "a", items) on list 1, named "a", replaced its items
C21_Witness ==
    /\ ret.op = "update_list"
    /\ ret.args[1] = 1
    /\ ret.args[2] = Str("a", 1)
    /\ ret.args[4] = Some(<<ItemData(3), ItemData(1)>>)
    /\ ret.val[1] = TRUE
    /\ db_get_lista(Store, 1).v.name = Str("a", 1)
    /\ get_list_items(Store, 1, FALSE)[1].label = Str("s", 3)

(* C22: copy_all_list_items(lista_id, separator) calls the clipboard at    *)
(* most once; a call that is made carries the contents of the list's items *)
(* in the order of orden_lista, joined by separator, and the operation     *)
(* returns success exactly when that call returns true.  With no store     *)
(* call failing the clipboard is called exactly when the list exists and   *)
(* has items; otherwise the operation returns failure.                     *)
C22_CopyStep ==
    (calls' = calls + 1 /\ ret'.op = "copy_all_list_items") =>
        LET lista_id == ret'.args[1]
            separator == ret'.args[2]
            its == db_get_items_by_lista(Store, lista_id)
            clips == SelectSeq(StepLog, LAMBDA e : IsSig(e, "copy_text"))
            present == db_get_lista(Store, lista_id).some /\ its # <<>>
        IN /\ Len(clips) <= 1
           /\ ~present => (clips = <<>> /\ ret'.val[1] = FALSE)
           /\ (present /\ ret'.fail = NoFail) => Len(clips) = 1
           /\ clips = <<>> => ret'.val[1] = FALSE
           /\ clips # <<>> =>
                /\ clips[1][2].parts = [k \in DOMAIN its |-> its[k].content]
                /\ clips[1][2].sep = separator
                /\ ret'.val[1] = (clips[1][3] = "ok")

\* C22: every step of the controller is as C22_CopyStep says
C22_CopiesJoinedContents == [][C22_CopyStep]_vars

\* The two items of list 1 were copied in one call
C22_Witness ==
    /\ ret.op = "copy_all_list_items"
    /\ ret.args[1] = 1
    /\ ret.val[1] = TRUE
    /\ CallLog = <<ClipCall([parts |-> <<Str("c", 2), Str("c", 1)>>,
                             sep |-> Str("\n", 1)], "ok")>>

(* C23: two Lista records compare equal exactly when their id and their    *)
(* category_id both match, whatever their other fields are, and two equal  *)
(* records have the same hash.                                             *)
C23_EqualByIdAndCategory ==
    (ret.op = "__eq__" /\ ret.args[2].cls = "Lista") =>
        LET self == ret.args[1]
            other == ret.args[2]
        IN /\ ret.val[1] = (self.id = other.id /\ self.category_id = other.category_id)
           /\ ret.val[1] => ret.val[2] = __hash__(other)

\* Two records of the same id and category with different names, use
\* counts and item counts compared equal
C23_Witness ==
    /\ ret.op = "__eq__"
    /\ ret.args[2].cls = "Lista"
    /\ ret.args[1].name # ret.args[2].name
    /\ ret.args[1].use_count # ret.args[2].use_count
    /\ ret.args[1].item_count # ret.args[2].item_count
    /\ ret.val[1] = TRUE
    /\ ret.val[2] = __hash__(ret.args[2])

\* The last started, completed or cancelled notification before log'[i],
\* 0 if there is none
BoundaryBefore(i) ==
    LET B == {j \in 1..(i - 1) : IsBoundary(log'[j])}
    IN IF B = {} THEN 0 ELSE CHOOSE j \in B : \A k \in B : k <= j

(* C24: when the clipboard call of item k throws, the session ends in that *)
(* same step: the call is followed at once by completed(list id), no step  *)
(* notification is emitted for item k, the controller holds no timer and   *)
(* no timer is active.  Nothing is copied and no step is announced outside *)
(* a session, so item k is not retried and the items after it are never    *)
(* copied.                                                                 *)
C24_ThrowStep ==
    \A i \in (Len(log) + 1)..Len(log') :
        /\ (IsSig(log'[i], "copy_text") /\ log'[i][3] = "throw") =>
              /\ i < Len(log')
              /\ log'[i + 1] = SigCompleted(sess'.list)
              /\ \A j \in (i + 1)..Len(log') : ~IsPlay(log'[j])
              /\ _execution_timer' = 0
              /\ active_timers' = {}
              /\ _execution_items' = <<>>
        /\ IsPlay(log'[i]) =>
              LET b == BoundaryBefore(i)
              IN b # 0 /\ IsSig(log'[b], "execution_started")

\* C24: every step of the controller is as C24_ThrowStep says
C24_ThrowEndsSession == [][C24_ThrowStep]_vars

\* The session of list 2 copied its first item and the copy of the second
\* threw
C24_Witness ==
    /\ Len(log) = 5
    /\ log[1] = SigStarted(2, 3)
    /\ log[3] = SigStep(1, Str("s", 3))
    /\ log[4] = ClipCall(Str("c", 1), "throw")
    /\ log[5] = SigCompleted(2)
    /\ _execution_timer = 0
    /\ active_timers = {}

(* C25: validate_list_data reports the first failing rule in the order     *)
(* empty name, name longer than 100, name taken in the category, no items, *)
(* more than 50 items, then the first item in sequence order without a     *)
(* label or with one longer than 200, named by its 1-based index.  With an *)
(* empty or too long name the store's uniqueness check is not called: a    *)
(* store whose check throws makes no difference.                           *)
C25_FirstRuleReported ==
    ret.op = "validate_list_data" =>
        LET name == ret.args[1]
            its == ret.args[2]
            category_id == ret.args[3]
            exclude_list_id == ret.args[4]
            name_empty == name \in {NoneStr, EmptyStr} \/ strip(name) = EmptyStr
            name_long == len(name) > 100
            taken == /\ category_id # 0
                     /\ \E l \in listas : /\ l.category_id = category_id
                                           /\ l.name = name
                                           /\ l.id # exclude_list_id
            Bad(i) == its[i].label = EmptyStr \/ len(its[i].label) > 200
            bad == {i \in DOMAIN its : Bad(i)}
            first == CHOOSE i \in bad : \A j \in bad : i <= j
            answer ==
                IF name_empty THEN <<FALSE, MsgNameEmpty>>
                ELSE IF name_long THEN <<FALSE, MsgNameTooLong>>
                ELSE IF taken THEN <<FALSE, MsgDuplicate(name)>>
                ELSE IF Len(its) = 0 THEN <<FALSE, MsgNoItems>>
                ELSE IF Len(its) > 50 THEN <<FALSE, MsgTooMany>>
                ELSE IF bad = {} THEN <<TRUE, Msg(<<>>)>>
                ELSE IF its[first].label = EmptyStr
                THEN <<FALSE, MsgLabelMissing(first)>>
                ELSE <<FALSE, MsgLabelTooLong(first)>>
        IN /\ (name_empty \/ name_long) => ~ret.raised
           /\ ~ret.raised => ret.val = answer
           /\ ret.raised => (ret.fail # NoFail /\ category_id # 0)

\* An empty name was reported, with a category given, items that break a
\* rule too, and a store whose uniqueness check throws
C25_Witness ==
    /\ ret.op = "validate_list_data"
    /\ ret.args[3] = 1
    /\ ret.fail # NoFail
    /\ ret.args[1] = EmptyStr
    /\ Len(ret.args[2]) = 3
    /\ ret.val = <<FALSE, MsgNameEmpty>>

\* The session has copied and announced the items read when it started, one
\* more per tick, and has not been cancelled
SnapshotReplayed ==
    LET n == Len(sess.items)
        k == Min(n, 1 + sess.ticks)
        played == Played
    IN /\ \A i \in DOMAIN log : ~IsSig(log[i], "execution_cancelled")
       /\ ~sess.threw =>
             /\ Len(played) = 2 * k
             /\ \A j \in 1..k : PlayedItemIn(played, j)
             /\ (sess.ticks < n) =>
                   /\ _execution_items = sess.items
                   /\ _execution_index = k
                   /\ _execution_list_id = sess.list
                   /\ _execution_timer \in active_timers
                   /\ Ended = <<>>
             /\ (sess.ticks >= n) => Ended = <<SigCompleted(sess.list)>>

(* C26: a running session replays the items read when it started.  A call  *)
(* of update_list or delete_list between two ticks, on the executing list  *)
(* or another, leaves the session's fields alone and emits no execution    *)
(* notification; the ticks go on copying and announcing the snapshot, also *)
(* the items the store no longer holds.                                    *)
C26_LiveStep ==
    /\ SnapshotReplayed'
    /\ calls' # calls =>
          /\ UNCHANGED ctl_vars
          /\ \A i \in DOMAIN StepLog :
                ~IsPlay(StepLog[i]) /\ ~IsBoundary(StepLog[i])

C26_StoreChangesDoNotReachSession == [][C26_LiveStep]_vars

\* The executing list was deleted after its first step, and the ticks still
\* copied its second item and completed the session
C26_Witness ==
    /\ ret.op = "delete_list"
    /\ ret.args[1] = sess.list
    /\ ret.val[1] = TRUE
    /\ ~db_get_lista(Store, sess.list).some
    /\ db_get_items_by_lista(Store, sess.list) = <<>>
    /\ sess.ticks = 2
    /\ PlayedItem(2)
    /\ IsSig(log[ret.hi], "list_deleted_legacy")
    /\ log[ret.hi + 1] = ClipCall(sess.items[2].content, "ok")
    /\ log[Len(log)] = SigCompleted(sess.list)

(* C27: a call of execute_list_sequentially that fails because the list is *)
(* absent or has no items, made while a session runs, leaves that session  *)
(* as it was: items, cursor, list id and the active timer are kept and no  *)
(* cancelled is emitted; the ticks that follow copy and announce the       *)
(* remaining items.                                                        *)
C27_RefusedStep ==
    /\ (calls' = calls + 1 /\ ret'.op = "execute_list_sequentially"
          /\ is_executing(Ctl)) =>
          LET lista_id == ret'.args[1]
              absent == ~db_get_lista(Store, lista_id).some
              empty == ~absent /\ db_get_items_by_lista(Store, lista_id) = <<>>
          IN (absent \/ empty) =>
                /\ ret'.val = FALSE
                /\ UNCHANGED <<ctl_vars, sess>>
                /\ is_executing(Ctl')
                /\ \A i \in DOMAIN StepLog : ~IsBoundary(StepLog[i])
    /\ (calls' = calls /\ log' # log
          /\ ret.op = "execute_list_sequentially" /\ ret.val = FALSE
          /\ _execution_index < Len(_execution_items)) =>
          LET k == _execution_index + 1
          IN /\ IsSig(StepLog[1], "copy_text")
             /\ StepLog[1][2] = _execution_items[k].content
             /\ StepLog[1][3] # "throw" =>
                   /\ StepLog = <<StepLog[1], SigStep(k, _execution_items[k].label)>>
                   /\ _execution_index' = k

C27_RefusalKeepsSession == [][C27_RefusedStep]_vars

\* While the session of list 2 ran, a call for the empty list 3 was
\* refused; the next tick copied the second item of list 2
C27_Witness ==
    /\ ret.op = "execute_list_sequentially"
    /\ ret.args[1] = 3
    /\ ret.val = FALSE
    /\ Len(log) = 6
    /\ log[1] = SigStarted(2, 3)
    /\ log[4] = SigError(MsgVacia)
    /\ log[6] = SigStep(2, sess.items[2].label)
    /\ _execution_index = 2
    /\ is_executing(Ctl)

\* List lista_id has between 1 and MaxItems items, numbered 1..n
Numbered(st, lista_id) ==
    LET its == db_get_items_by_lista(st, lista_id)
    IN /\ Len(its) \in 1..MaxItems
       /\ \A i \in DOMAIN its : its[i].orden_lista = i
       /\ Cardinality({q \in st.items : q.list_id = lista_id}) = Len(its)

(* C28: with no store call failing, a successful create_list,              *)
(* create_list_from_items or update_list leaves every list it created      *)
(* with 1..50 items numbered 1..n, keeps so every list that was so, and     *)
(* the list update_list replaced the items of is so afterwards; hence      *)
(* every list made through the controller is so after any sequence of      *)
(* such calls.  update_list with items_data = [] is rejected and changes    *)
(* nothing.                                                                 *)
C28_ItemsStep ==
    (calls' = calls + 1 /\ faults' = 0
       /\ ret'.op \in {"create_list", "create_list_from_items", "update_list"}) =>
        /\ \A r \in listas' :
              (r.id \notin {q.id : q \in listas} \/ Numbered(Store, r.id))
                 => Numbered(Store', r.id)
        /\ (ret'.op = "update_list" /\ ret'.args[4].some) =>
              IF ret'.args[4].v = <<>>
              THEN ret'.val[1] = FALSE /\ Store' = Store
              ELSE ret'.val[1] = TRUE => Numbered(Store', ret'.args[1])

NamedStep(name) ==
    /\ calls' = calls + 1
    /\ ret'.op \in {"update_list", "rename_list"}
    /\ ret'.args[2] = name
    /\ db_get_lista(Store, ret'.args[1]).some
    /\ faults' = faults

(* C29, as claimed: update_list or rename_list with "" as new name runs no *)
(* validation, succeeds, leaves the stored name and emits updated; with a  *)
(* new name of blanks it is rejected with an error and changes nothing.    *)
C29_EmptyNameStep ==
    /\ NamedStep(EmptyStr) =>
          LET lista_id == ret'.args[1]
              before == db_get_lista(Store, lista_id).v
          IN /\ ret'.val[1] = TRUE
             /\ db_get_lista(Store', lista_id).v.name = before.name
             /\ StepLog = <<SigUpdated(lista_id, before.category_id),
                            SigUpdatedLegacy(before.name, before.category_id)>>
    /\ NamedStep(Str(" ", 2)) =>
          /\ ret'.val[1] = FALSE
          /\ StepLog = <<SigError(MsgNameEmpty)>>
          /\ Store' = Store

C29_EmptyNameAlwaysSucceeds == [][C29_EmptyNameStep]_vars

(* C29, amended: with "" as new name the name is not validated and not     *)
(* written.  rename_list, and update_list without items_data, then run no  *)
(* validation at all, succeed and emit updated and the legacy updated with *)
(* the stored name.  update_list with items_data validates them under the  *)
(* stored name: if they are rejected the call fails with one error and     *)
(* changes nothing, otherwise it succeeds in the same way.  A new name of  *)
(* blanks is rejected with the empty-name error and changes nothing.       *)
C29_NoRenameStep ==
    /\ NamedStep(EmptyStr) =>
          LET lista_id == ret'.args[1]
              before == db_get_lista(Store, lista_id).v
              with_items == ret'.op = "update_list" /\ ret'.args[4].some
          IN /\ db_get_lista(Store', lista_id).v.name = before.name
             /\ ret'.fail # Fail("is_lista_name_unique", 1)
             /\ ~with_items =>
                   /\ ret'.fail # Fail("is_lista_name_unique", 2)
                   /\ ret'.val[1] = TRUE
             /\ ret'.val[1] = TRUE =>
                   StepLog = <<SigUpdated(lista_id, before.category_id),
                               SigUpdatedLegacy(before.name, before.category_id)>>
             /\ ret'.val[1] = FALSE =>
                   /\ Len(StepLog) = 1
                   /\ IsSig(StepLog[1], "error_occurred")
                   /\ StepLog[1][2] = ret'.val[2]
                   /\ Store' = Store
             /\ (with_items /\ ret'.args[4].v = <<>>) => ret'.val[1] = FALSE
    /\ NamedStep(Str(" ", 2)) =>
          /\ ret'.val[1] = FALSE
          /\ StepLog = <<SigError(MsgNameEmpty)>>
          /\ Store' = Store

C29_EmptyNameIsNoRename == [][C29_NoRenameStep]_vars

\* rename_list(1, "") succeeded: list 1 keeps its name and updated was emitted
C29_Witness ==
    /\ ret.op = "rename_list"
    /\ ret.args = <<1, EmptyStr>>
    /\ ret.val[1] = TRUE
    /\ db_get_lista(Store, 1).v.name = Str("a", 1)
    /\ CallLog = <<SigUpdated(1, 1), SigUpdatedLegacy(Str("a", 1), 1)>>

\* copy_text has returned False in the session that is running
FalseReturned ==
    \E i \in DOMAIN SessLog :
        IsSig(SessLog[i], "copy_text") /\ SessLog[i][3] = "false"

(* C30: the value copy_text returns is ignored.  When it returns False for *)
(* item k, step(k, label_k) is emitted next, the cursor moves to k, the     *)
(* items and the timer stay and no error or end of session is emitted; the *)
(* ticks that follow copy the remaining items and the one after the last   *)
(* item emits completed.                                                    *)
C30_FalseStep ==
    /\ \A i \in DOMAIN StepLog :
          (IsSig(StepLog[i], "copy_text") /\ StepLog[i][3] = "false") =>
              LET k == _execution_index' IN
              /\ i + 1 = Len(StepLog)
              /\ k \in DOMAIN _execution_items'
              /\ StepLog[i][2] = _execution_items'[k].content
              /\ StepLog[i + 1] = SigStep(k, _execution_items'[k].label)
              /\ \A j \in DOMAIN StepLog :
                    /\ ~IsSig(StepLog[j], "error_occurred")
                    /\ j > i => ~IsEnd(StepLog[j])
              /\ IF calls' = calls
                 THEN /\ k = _execution_index + 1
                      /\ UNCHANGED <<_execution_items, _execution_timer,
                                     _execution_list_id, active_timers>>
                 ELSE /\ k = 1
                      /\ ret'.val = TRUE
                      /\ Len(_execution_items') > 1 => is_executing(Ctl')
    /\ (calls' = calls /\ log' # log /\ FalseReturned /\ is_executing(Ctl)) =>
          IF _execution_index < Len(_execution_items)
          THEN /\ IsSig(StepLog[1], "copy_text")
               /\ StepLog[1][2] = _execution_items[_execution_index + 1].content
          ELSE StepLog = <<SigCompleted(_execution_list_id)>>

C30_CopyResultIgnored == [][C30_FalseStep]_vars

\* The copy of the second of three items returned False; the session went
\* on to the third and completed
C30_Witness ==
    /\ Len(log) = 8
    /\ Len(sess.items) = 3
    /\ log[1] = SigStarted(2, 3)
    /\ log[4] = ClipCall(sess.items[2].content, "false")
    /\ log[5] = SigStep(2, sess.items[2].label)
    /\ log[6] = ClipCall(sess.items[3].content, "ok")
    /\ log[7] = SigStep(3, sess.items[3].label)
    /\ log[8] = SigCompleted(2)

=============================================================================
